---- MODULE Spec2Model ----
(***************************************************************************)
(* Frame Streams ingestion of shodohflo (shodohflo/fstrm.py): the frame    *)
(* reassembly of DataProcessor, the READY/ACCEPT/START/STOP handshake of   *)
(* DataProcessor.process_frame and the two connection loops of Server      *)
(* (Server.listen, synchronous, and Server.process_data, asyncio).         *)
(*                                                                         *)
(* Bytes are the integers 0..255, a bytes object is a sequence of them.    *)
(* A str is the sequence of its code points; only ASCII content types      *)
(* occur, on which bytes.decode() and str.encode() keep the sequence.      *)
(***************************************************************************)
EXTENDS Integers, Sequences, FiniteSets, TLC

VARIABLES
    stream,     \* every byte the peer writes on the connection, in order
    pos,        \* how many bytes of stream have been handed to append()
    processor,  \* the connection's DataProcessor (its attributes)
    pc,         \* where the connection loop stands
    loop,       \* Server.loop: TRUE for the asyncio server, FALSE for listen()
    server_data_type,  \* Server.data_type, the configured content type or None
    readyq,     \* the event loop's FIFO of created tasks that have not run yet
    sent,       \* the payloads written to the peer (conn.sendall / conn.write)
    calls,      \* the Consumer callbacks made so far, in order
    frames,     \* the frames frame_ready has extracted so far, in order
    ready,      \* what the last frame_ready() call returned ("none" before one)
    err,        \* the exception that ended the connection loop, "" if none
    conns,      \* the connections of a server that serves several, by number
    processors, \* Server.processors, the numbers of the connections whose
                \* DataProcessor is in the set
    listening,  \* Server.listen() / the asyncio server is still running
    pb,         \* a protobuf decode: its input, the Protobuf being built, the
                \* class-level field descriptors, how it ended
    flow,       \* a pcap_config configuration: its networks, its FlowMapping, the
                \* last call of match and what it returned
    agent       \* the Dnstap agent (dnstap_agent.py on dnstap2json.py): its
                \* mapper, its writer, and the DNS agent that receives from it

\* What the server that serves several connections adds.
server_vars == <<conns, processors, listening>>

\* What the decoders of the shodohflo library add.
lib_vars == <<pb, flow, agent>>

vars == <<stream, pos, processor, pc, loop, server_data_type, readyq, sent, calls, frames, ready, err, conns, processors, listening, pb, flow, agent>>

----------------------------------------------------------------------------
(* Program constants.                                                      *)

FSTRM_CONTROL_ACCEPT == 1
FSTRM_CONTROL_START == 2
FSTRM_CONTROL_STOP == 3
FSTRM_CONTROL_READY == 4
FSTRM_CONTROL_FINISH == 5
FSTRM_DATA_FRAME == 99
FSTRM_CONTROL_FIELD_CONTENT_TYPE == 1

\* Python's None where an int is expected (data_length, control_length):
\* int.from_bytes(..., signed=False) is never negative.
None == -1

\* Python's None where a str is expected (data_type); a str s is <<s>>.
NoType == <<>>
Some(s) == <<s>>

----------------------------------------------------------------------------
(* Bounds of the model.                                                    *)

\* The peer writes at most this many frames on a connection.
MaxFrames == 3

----------------------------------------------------------------------------
(* bytes helpers.                                                          *)

Min(a, b) == IF a < b THEN a ELSE b

\* b[:n]
Take(b, n) == SubSeq(b, 1, Min(n, Len(b)))

\* b[n:]
Drop(b, n) == SubSeq(b, Min(n, Len(b)) + 1, Len(b))

\* int.from_bytes(b, byteorder='big', signed=False), of a slice of any length
RECURSIVE from_bytes(_)
from_bytes(b) ==
    IF b = <<>> THEN 0
    ELSE from_bytes(SubSeq(b, 1, Len(b) - 1)) * 256 + b[Len(b)]

\* n.to_bytes(4, byteorder='big', signed=False)
to_bytes(n) ==
    << (n \div 16777216) % 256, (n \div 65536) % 256, (n \div 256) % 256, n % 256 >>

----------------------------------------------------------------------------
(* DataProcessor.                                                          *)

\* A DataProcessor that is created with no content type, whatever the server's.
DataProcessor_untyped(data_type) ==
    [buffer |-> <<>>, receiving_data |-> TRUE, running |-> TRUE,
     data_type |-> NoType, data_length |-> None, control_length |-> None,
     tasks |-> {}, frame |-> <<>>, is_control_frame |-> FALSE]

\* DataProcessor.__init__. frame and is_control_frame are attributes that
\* frame_ready creates; nothing reads them before that.
DataProcessor(data_type) ==
    [ buffer           |-> <<>>,
      receiving_data   |-> TRUE,
      running          |-> TRUE,
      data_type        |-> data_type,
      data_length      |-> None,
      control_length   |-> None,
      tasks            |-> {},
      frame            |-> <<>>,
      is_control_frame |-> FALSE ]

\* DataProcessor.append
append(p, data) == [p EXCEPT !.buffer = p.buffer \o data]

\* read_size when the four bytes of a length count as bytes of the frame
\* that are in the buffer.
read_size_less_prefix(p) ==
    IF p.data_length = None THEN 8 - Len(p.buffer)
    ELSE IF p.data_length # 0 THEN p.data_length - (Len(p.buffer) + 4)
    ELSE IF p.control_length = None THEN 4 - Len(p.buffer)
    ELSE p.control_length - (Len(p.buffer) + 4)

\* A read_size that asks for the whole declared length, whatever is buffered.
read_size_whole_length(p) ==
    IF p.data_length = None THEN 8 - Len(p.buffer)
    ELSE IF p.data_length # 0 THEN p.data_length
    ELSE IF p.control_length = None THEN 4 - Len(p.buffer)
    ELSE p.control_length

\* DataProcessor.read_size
read_size(p) ==
    IF p.data_length = None THEN 8 - Len(p.buffer)
    ELSE IF p.data_length # 0 THEN p.data_length - Len(p.buffer)
    ELSE IF p.control_length = None THEN 4 - Len(p.buffer)
    ELSE p.control_length - Len(p.buffer)

\* A prefix test that is off by one: three bytes pass for a length prefix.
prefix_missing_off_by_one(buffered) == Len(buffered) < 3

\* frame_ready, "if len(buffered) < 4": the next 4-byte length is not all there.
prefix_missing(buffered) == Len(buffered) < 4

\* A not_ready that forgets to store what is left of the buffer.
not_ready_forgets(p, buffered) == [ret |-> FALSE, p |-> p]

\* frame_ready, "self.buffer = buffered; return False": the bytes of a length
\* prefix that has been decoded are dropped from the buffer, the rest waits.
not_ready(p, buffered) == [ret |-> FALSE, p |-> [p EXCEPT !.buffer = buffered]]

\* An extracted that leaves the pending lengths as they are.
extracted_keeps_lengths(p, buffered, n, is_control) ==
    [ret |-> TRUE,
     p |-> [p EXCEPT !.is_control_frame = is_control,
                     !.frame = Take(buffered, n), !.buffer = Drop(buffered, n)]]

\* An extracted that slices self.buffer, which may still hold a length prefix,
\* where the code slices the local `buffered`.
extracted_from_buffer(p, buffered, n, is_control) ==
    [ret |-> TRUE,
     p |-> [p EXCEPT !.is_control_frame = is_control,
                     !.frame = Take(p.buffer, n), !.buffer = Drop(p.buffer, n),
                     !.data_length = None, !.control_length = None]]

\* frame_ready, the two places where a complete frame of n bytes is taken from
\* the front of `buffered`.
extracted(p, buffered, n, is_control) ==
    [ret |-> TRUE,
     p |-> [p EXCEPT !.is_control_frame = is_control,
                     !.frame = Take(buffered, n), !.buffer = Drop(buffered, n),
                     !.data_length = None, !.control_length = None]]

\* DataProcessor.frame_ready: ret is the returned value, p the processor after
\* the call. need1 / need2: the outer / the control length is still unknown;
\* b1 / b2: the local `buffered` after the outer / the control length;
\* p1 / p2: the processor once data_length / control_length is assigned.
frame_ready(p) ==
    IF ~p.running THEN [ret |-> TRUE, p |-> p]
    ELSE
    LET need1 == p.data_length = None
        dl    == IF need1 THEN from_bytes(Take(p.buffer, 4)) ELSE p.data_length
        b1    == IF need1 THEN Drop(p.buffer, 4) ELSE p.buffer
        p1    == [p EXCEPT !.data_length = dl]
        need2 == p.control_length = None
        cl    == IF need2 THEN from_bytes(Take(b1, 4)) ELSE p.control_length
        b2    == IF need2 THEN Drop(b1, 4) ELSE b1
        p2    == [p1 EXCEPT !.control_length = cl]
    IN  IF need1 /\ prefix_missing(p.buffer) THEN [ret |-> FALSE, p |-> p]
        ELSE IF dl = 0 THEN
            IF need2 /\ prefix_missing(b1) THEN not_ready(p1, b1)
            ELSE IF Len(b2) < cl THEN not_ready(p2, b2)
            ELSE extracted(p2, b2, cl, TRUE)
        ELSE IF Len(b1) < dl THEN not_ready(p1, b1)
        ELSE extracted(p1, b1, dl, FALSE)

\* bytes.decode() / str.encode() of ASCII text: byte i is code point i.
decode(b) == [i \in 1..Len(b) |-> b[i]]
encode(t) == [i \in 1..Len(t) |-> t[i]]
IsAscii(b) == \A i \in 1..Len(b) : b[i] < 128

\* A content_type_payload that records the received type over the one it has.
content_type_payload_overwrites(p, frame) ==
    LET value == Drop(Drop(frame, 4), 4)
        field_length == from_bytes(Take(Drop(frame, 4), 4))
    IN  [err |-> "", p |-> [p EXCEPT !.data_type = Some(decode(Take(value, field_length)))]]

\* DataProcessor.content_type_payload: err names the exception raised ("" when
\* none), p is the processor after the call.
content_type_payload(p, frame) ==
    LET field_type   == from_bytes(Take(frame, 4))
        frame1       == Drop(frame, 4)
        field_length == from_bytes(Take(frame1, 4))
        frame2       == Drop(frame1, 4)
        content      == Take(frame2, field_length)
        content_type == decode(content)
    IN  IF field_type # FSTRM_CONTROL_FIELD_CONTENT_TYPE
            THEN [err |-> "FieldTypeMismatchError", p |-> p]
        ELSE IF field_length > Len(frame2)
            THEN [err |-> "FieldSizeError", p |-> p]
        ELSE IF ~IsAscii(content)
            THEN [err |-> "UnicodeDecodeError", p |-> p]
        ELSE IF p.data_type = NoType
            THEN [err |-> "", p |-> [p EXCEPT !.data_type = Some(content_type)]]
        ELSE IF content_type # p.data_type[1]
            THEN [err |-> "ContentTypeMismatchError", p |-> p]
        ELSE [err |-> "", p |-> p]

\* One Consumer callback as it is recorded in calls: the method, its argument,
\* what it returned and, for consume, which extracted frame it was given.
Call(op, arg, ret, idx) == [op |-> op, arg |-> arg, ret |-> ret, idx |-> idx]

\* connection_done when it calls finished and leaves the processor as it is.
connection_done_keeps_state(p) ==
    [p |-> p,
     calls |-> IF p.receiving_data
               THEN <<Call("finished", p.buffer, TRUE, 0)>> ELSE <<>>]

\* A connection_done that hands nothing to the consumer.
connection_done_silent(p) ==
    [p |-> [p EXCEPT !.receiving_data = FALSE, !.buffer = <<>>], calls |-> <<>>]

\* DataProcessor.connection_done: p is the processor after the call, calls the
\* Consumer callbacks made.
connection_done(p) ==
    [p |-> [p EXCEPT !.receiving_data = FALSE, !.buffer = <<>>],
     calls |-> IF p.receiving_data
               THEN <<Call("finished", p.buffer, TRUE, 0)>> ELSE <<>>]

\* An accept_payload whose control length leaves out the control type.
accept_payload_short_length(type) ==
    LET field_bytes  == encode(type)
        field_length == Len(field_bytes)
    IN  to_bytes(0) \o to_bytes(field_length + 8) \o to_bytes(FSTRM_CONTROL_ACCEPT)
        \o to_bytes(FSTRM_CONTROL_FIELD_CONTENT_TYPE) \o to_bytes(field_length)
        \o field_bytes

\* process_frame, "payload = b''.join(...)": the ACCEPT control frame.
accept_payload(type) ==
    LET field_bytes  == encode(type)
        field_length == Len(field_bytes)
    IN  to_bytes(0) \o to_bytes(field_length + 12) \o to_bytes(FSTRM_CONTROL_ACCEPT)
        \o to_bytes(FSTRM_CONTROL_FIELD_CONTENT_TYPE) \o to_bytes(field_length)
        \o field_bytes

\* What process_frame yields: the returned value (False is 0), the exception
\* raised ("" when none), the processor afterwards, the payloads written to
\* the peer, the Consumer callbacks made and the tasks created.
Outcome(status, e, p, out, made, created) ==
    [status |-> status, err |-> e, p |-> p, sent |-> out, calls |-> made,
     tasks |-> created]

\* process_frame, "if not self.is_control_frame": with a loop a task that will
\* call consume is created, without one consume is called at once.
process_data_frame(p, lp, idx, ret) ==
    IF lp
    THEN Outcome(FSTRM_DATA_FRAME, "", [p EXCEPT !.tasks = p.tasks \cup {idx}],
                 <<>>, <<>>, <<[id |-> idx, frame |-> p.frame]>>)
    ELSE Outcome(IF ret THEN FSTRM_DATA_FRAME ELSE 0, "", p, <<>>,
                 <<Call("consume", p.frame, ret, idx)>>, <<>>)

\* process_frame, "if control_type == FSTRM_CONTROL_READY"
process_ready(p, frame) ==
    LET c == content_type_payload(p, frame) IN
    IF c.err # "" THEN Outcome(0, c.err, c.p, <<>>, <<>>, <<>>)
    ELSE Outcome(FSTRM_CONTROL_READY, "", c.p,
                 <<accept_payload(c.p.data_type[1])>>, <<>>, <<>>)

\* A process_start that answers START with an ACCEPT as READY is answered.
process_start_sends_accept(p, frame, idx, ret) ==
    LET c == content_type_payload(p, frame) IN
    IF c.err # "" THEN Outcome(0, c.err, c.p, <<>>, <<>>, <<>>)
    ELSE Outcome(IF ret THEN FSTRM_CONTROL_START ELSE 0, "", c.p,
                 <<accept_payload(c.p.data_type[1])>>,
                 <<Call("accepted", c.p.data_type[1], ret, idx)>>, <<>>)

\* A process_start that goes on to streaming whatever accepted returns.
process_start_ignores_accepted(p, frame, idx, ret) ==
    LET c == content_type_payload(p, frame) IN
    IF c.err # "" THEN Outcome(0, c.err, c.p, <<>>, <<>>, <<>>)
    ELSE Outcome(FSTRM_CONTROL_START, "", c.p, <<>>,
                 <<Call("accepted", c.p.data_type[1], ret, idx)>>, <<>>)

\* process_frame, "if control_type == FSTRM_CONTROL_START"
process_start(p, frame, idx, ret) ==
    LET c == content_type_payload(p, frame) IN
    IF c.err # "" THEN Outcome(0, c.err, c.p, <<>>, <<>>, <<>>)
    ELSE Outcome(IF ret THEN FSTRM_CONTROL_START ELSE 0, "", c.p, <<>>,
                 <<Call("accepted", c.p.data_type[1], ret, idx)>>, <<>>)

\* A process_stop that knows no STOP: the frame falls through to the raise.
process_stop_unknown(p) == Outcome(0, "BadControlTypeError", p, <<>>, <<>>, <<>>)

\* process_frame, "if control_type == FSTRM_CONTROL_STOP"
process_stop(p) == Outcome(0, "", p, <<>>, <<>>, <<>>)

\* DataProcessor.process_frame(conn, consumer, loop). idx is the number of the
\* frame among the frames extracted; ret is what the Consumer method that the
\* call invokes (consume or accepted, if any) returns.
process_frame(p, lp, idx, ret) ==
    LET control_type == from_bytes(Take(p.frame, 4))
        frame        == Drop(p.frame, 4)
    IN  IF ~p.running THEN Outcome(0, "", p, <<>>, <<>>, <<>>)
        ELSE IF ~p.is_control_frame THEN process_data_frame(p, lp, idx, ret)
        ELSE IF control_type = FSTRM_CONTROL_READY THEN process_ready(p, frame)
        ELSE IF control_type = FSTRM_CONTROL_START THEN process_start(p, frame, idx, ret)
        ELSE IF control_type = FSTRM_CONTROL_STOP THEN process_stop(p)
        ELSE Outcome(0, "BadControlTypeError", p, <<>>, <<>>, <<>>)

\* A schedule_consumer that lets the loop run the newest task first.
next_task_newest(q) == Len(q)

\* loop.create_task(...): the loop runs the tasks in the order of their
\* creation, so the next to run is the oldest.
next_task(q) == 1

\* DataProcessor.schedule_consumer, the body of a task: ret is what
\* Consumer.consume returns.
schedule_consumer(p, task, ret) ==
    [p |-> IF ret THEN p
           ELSE [p EXCEPT !.running = FALSE, !.tasks = p.tasks \ {task.id}],
     calls |-> <<Call("consume", task.frame, ret, task.id)>>]

\* process_frame, "return consumer.consume(self.frame) and ..." when consume
\* raises: the exception leaves process_frame.
consume_raises(p, idx) ==
    Outcome(0, "ConsumeError", p, <<>>, <<Call("consume", p.frame, FALSE, idx)>>, <<>>)

\* schedule_consumer when consume raises: the exception ends the task before
\* "self.running = False" and "self.tasks.remove(...)".
schedule_consumer_raises(p, task) ==
    [p |-> p, calls |-> <<Call("consume", task.frame, FALSE, task.id)>>]

----------------------------------------------------------------------------
(* The peer: what a Frame Streams sender writes.                           *)

\* One Content-Type field of a control frame: field type, field length, data.
ContentTypeField(s) ==
    to_bytes(FSTRM_CONTROL_FIELD_CONTENT_TYPE) \o to_bytes(Len(s)) \o s

\* A control frame: zero payload length, control frame length, control frame
\* type, fields.
ControlFrame(type, fields) ==
    to_bytes(0) \o to_bytes(4 + Len(fields)) \o to_bytes(type) \o fields

\* A data frame: nonzero payload length, payload.
DataFrame(payload) == to_bytes(Len(payload)) \o payload

\* The content types "X" and "Y".
TypeX == <<88>>
TypeY == <<89>>

READY_X == ControlFrame(FSTRM_CONTROL_READY, ContentTypeField(TypeX))
START_X == ControlFrame(FSTRM_CONTROL_START, ContentTypeField(TypeX))
START_Y == ControlFrame(FSTRM_CONTROL_START, ContentTypeField(TypeY))
STOP    == ControlFrame(FSTRM_CONTROL_STOP, <<>>)
DATA_A  == DataFrame(<<65>>)
DATA_B  == DataFrame(<<66, 67>>)

\* The ACCEPT control frame for content type t, as a sender builds it.
ACCEPT(t) == ControlFrame(FSTRM_CONTROL_ACCEPT, ContentTypeField(t))

RECURSIVE Flatten(_)
Flatten(fs) == IF fs = <<>> THEN <<>> ELSE Head(fs) \o Flatten(Tail(fs))

\* Every stream of at most MaxFrames frames of the catalog.
Streams(catalog) ==
    { Flatten(fs) : fs \in UNION { [1..k -> catalog] : k \in 0..MaxFrames } }

----------------------------------------------------------------------------
(* Reassembly alone: a DataProcessor fed through append / frame_ready.     *)

\* stream[a:b]
Slice(a, b) == SubSeq(stream, a + 1, b)

\* What is recorded of an extracted frame: its kind, its payload and how many
\* bytes of the stream lie before the bytes still in the buffer.
FrameRecord(p, fed) ==
    [control |-> p.is_control_frame, payload |-> p.frame, end |-> fed - Len(p.buffer)]

ReasmCatalog == {READY_X, STOP, DATA_A, DATA_B}

ReasmInit ==
    /\ stream \in Streams(ReasmCatalog)
    /\ pos = 0
    /\ processor = DataProcessor(NoType)
    /\ pc = "reasm"
    /\ loop = FALSE
    /\ server_data_type = NoType
    /\ readyq = <<>>
    /\ sent = <<>>
    /\ calls = <<>>
    /\ frames = <<>>
    /\ ready = "none"
    /\ err = ""
    /\ conns = <<>>
    /\ processors = {}
    /\ listening = FALSE
    /\ pb = <<>>
    /\ flow = <<>>
    /\ agent = <<>>

\* processor.append(chunk), the chunk being any number of the bytes to come.
ReasmAppend ==
    /\ pc = "reasm"
    /\ \E k \in 1..(Len(stream) - pos) :
        /\ processor' = append(processor, SubSeq(stream, pos + 1, pos + k))
        /\ pos' = pos + k
    /\ ready' = "none"
    /\ UNCHANGED server_vars
    /\ UNCHANGED lib_vars
    /\ UNCHANGED <<stream, pc, loop, server_data_type, readyq, sent, calls, frames, err>>

\* processor.frame_ready()
ReasmFrameReady ==
    /\ pc = "reasm"
    /\ LET r == frame_ready(processor) IN
        /\ processor' = r.p
        /\ ready' = IF r.ret THEN "True" ELSE "False"
        /\ frames' = IF r.ret THEN Append(frames, FrameRecord(r.p, pos)) ELSE frames
    /\ UNCHANGED server_vars
    /\ UNCHANGED lib_vars
    /\ UNCHANGED <<stream, pos, pc, loop, server_data_type, readyq, sent, calls, err>>

ReasmNext == ReasmAppend \/ ReasmFrameReady

SpecReasm == ReasmInit /\ [][ReasmNext]_vars

----------------------------------------------------------------------------
(* Reassembly of frames that declare a very large length: the peer has     *)
(* written the length prefixes and the first bytes of the payload.         *)

\* The largest length a 4-byte prefix declares with the high bit clear.
HugeLength == 2147483647

\* A Data frame of HugeLength bytes and a Control frame of HugeLength bytes,
\* as far as the peer has written them, alone or after a whole frame.
HugeInit ==
    /\ stream \in
        { to_bytes(HugeLength) \o <<65, 66>>,
          DATA_A \o to_bytes(HugeLength) \o <<65, 66>>,
          to_bytes(0) \o to_bytes(HugeLength) \o to_bytes(FSTRM_CONTROL_START),
          STOP \o to_bytes(0) \o to_bytes(HugeLength) \o to_bytes(FSTRM_CONTROL_START) }
    /\ pos = 0
    /\ processor = DataProcessor(NoType)
    /\ pc = "reasm"
    /\ loop = FALSE
    /\ server_data_type = NoType
    /\ readyq = <<>>
    /\ sent = <<>>
    /\ calls = <<>>
    /\ frames = <<>>
    /\ ready = "none"
    /\ err = ""
    /\ conns = <<>>
    /\ processors = {}
    /\ listening = FALSE
    /\ pb = <<>>
    /\ flow = <<>>
    /\ agent = <<>>

SpecHuge == HugeInit /\ [][ReasmNext]_vars

----------------------------------------------------------------------------
(* The server: one connection of Server.listen (loop = FALSE) or of         *)
(* Server.process_data (loop = TRUE).                                       *)
(*                                                                         *)
(* pc: "accept" no connection yet; "frame_ready" about to call              *)
(* processor.frame_ready(); "recv" about to read from the socket;          *)
(* "read_wait" / "drain_wait" process_data is suspended in                 *)
(* await reader.read() / await writer.drain(); "process" about to call     *)
(* processor.process_frame(); "closed" the loop has closed the connection; *)
(* "error" an exception has left the loop.                                 *)

ServeCatalog == {READY_X, START_X, START_Y, STOP, DATA_A, DATA_B}

ServeInit ==
    /\ stream \in Streams(ServeCatalog)
    /\ pos = 0
    /\ loop \in BOOLEAN
    /\ server_data_type \in {NoType, Some(TypeX), Some(TypeY)}
    /\ processor = DataProcessor(NoType)
    /\ pc = "accept"
    /\ readyq = <<>>
    /\ sent = <<>>
    /\ calls = <<>>
    /\ frames = <<>>
    /\ ready = "none"
    /\ err = ""
    /\ conns = <<>>
    /\ processors = {}
    /\ listening = FALSE
    /\ pb = <<>>
    /\ flow = <<>>
    /\ agent = <<>>

\* listen: conn, client = self.sock.accept(); processor = DataProcessor(...)
\* process_data: processor = DataProcessor(self.data_type)
ServeAccept ==
    /\ pc = "accept"
    /\ processor' = DataProcessor(server_data_type)
    /\ pc' = "frame_ready"
    /\ UNCHANGED server_vars
    /\ UNCHANGED lib_vars
    /\ UNCHANGED <<stream, pos, loop, server_data_type, readyq, sent, calls, frames,
                   ready, err>>

\* while not processor.frame_ready(): ...
ServeFrameReady ==
    /\ pc = "frame_ready"
    /\ LET r == frame_ready(processor) IN
        /\ processor' = r.p
        /\ ready' = IF r.ret THEN "True" ELSE "False"
        /\ frames' = IF r.ret /\ processor.running
                     THEN Append(frames, FrameRecord(r.p, pos)) ELSE frames
        /\ pc' = IF r.ret THEN "process" ELSE "recv"
    /\ UNCHANGED server_vars
    /\ UNCHANGED lib_vars
    /\ UNCHANGED <<stream, pos, loop, server_data_type, readyq, sent, calls, err>>

\* data = conn.recv(n) / reader.read(n) has returned, and what the loop does
\* with it: between 1 and n of the bytes to come are appended; at the end of
\* the stream (or for n = 0) data is empty and the connection is done.
Received ==
    LET n == read_size(processor)
        d == connection_done(processor)
    IN  \/ /\ n >= 1
           /\ \E k \in 1..Min(n, Len(stream) - pos) :
                /\ processor' = append(processor, Slice(pos, pos + k))
                /\ pos' = pos + k
           /\ pc' = "frame_ready"
           /\ UNCHANGED calls
        \/ /\ n = 0 \/ (n >= 1 /\ pos = Len(stream))
           /\ processor' = d.p
           /\ calls' = calls \o d.calls
           /\ pc' = "closed"
           /\ UNCHANGED pos

\* data = conn.recv(processor.read_size()), and
\* data = await reader.read(processor.read_size()) when the reader has the
\* bytes (or the end of the stream) at hand and does not suspend.
ServeRecv ==
    /\ pc = "recv"
    /\ Received
    /\ UNCHANGED server_vars
    /\ UNCHANGED lib_vars
    /\ UNCHANGED <<stream, loop, server_data_type, readyq, sent, frames, ready, err>>

\* data = await reader.read(...) suspends process_data: the loop runs.
ServeReadSuspend ==
    /\ pc = "recv"
    /\ loop
    /\ pc' = "read_wait"
    /\ UNCHANGED server_vars
    /\ UNCHANGED lib_vars
    /\ UNCHANGED <<stream, pos, processor, loop, server_data_type, readyq, sent,
                   calls, frames, ready, err>>

\* process_data resumes from await reader.read(...). Its wake-up is queued
\* behind the tasks it created, so these have all run.
ServeReadResume ==
    /\ pc = "read_wait"
    /\ readyq = <<>>
    /\ Received
    /\ UNCHANGED server_vars
    /\ UNCHANGED lib_vars
    /\ UNCHANGED <<stream, loop, server_data_type, readyq, sent, frames, ready, err>>

\* processor.process_frame(...) and what the loop does with its status.
ServeProcessFrame ==
    /\ pc = "process"
    /\ \E ret \in BOOLEAN :
        LET r == process_frame(processor, loop, Len(frames), ret)
            d == connection_done(r.p)
        IN  /\ sent' = sent \o r.sent
            /\ readyq' = readyq \o r.tasks
            /\ err' = r.err
            /\ IF r.err # "" THEN
                    /\ processor' = r.p
                    /\ calls' = calls \o r.calls
                    /\ pc' = "error"
               ELSE IF r.status = 0 THEN
                    /\ processor' = d.p
                    /\ calls' = calls \o r.calls \o d.calls
                    /\ pc' = "closed"
               ELSE /\ processor' = r.p
                    /\ calls' = calls \o r.calls
                    /\ \/ pc' = "frame_ready"
                       \/ /\ loop
                          /\ r.status = FSTRM_CONTROL_READY
                          /\ pc' = "drain_wait"
    /\ UNCHANGED server_vars
    /\ UNCHANGED lib_vars
    /\ UNCHANGED <<stream, pos, loop, server_data_type, frames, ready>>

\* process_data resumes from await writer.drain().
ServeDrained ==
    /\ pc = "drain_wait"
    /\ readyq = <<>>
    /\ pc' = "frame_ready"
    /\ UNCHANGED server_vars
    /\ UNCHANGED lib_vars
    /\ UNCHANGED <<stream, pos, processor, loop, server_data_type, readyq, sent,
                   calls, frames, ready, err>>

\* The loop runs the next task, a schedule_consumer(consumer, frame, promise),
\* while process_data is suspended or has returned.
ServeRunTask ==
    /\ pc \in {"read_wait", "drain_wait", "closed", "error"}
    /\ readyq # <<>>
    /\ \E ret \in BOOLEAN :
        LET i == next_task(readyq)
            r == schedule_consumer(processor, readyq[i], ret)
        IN  /\ processor' = r.p
            /\ calls' = calls \o r.calls
            /\ readyq' = SubSeq(readyq, 1, i - 1) \o SubSeq(readyq, i + 1, Len(readyq))
    /\ UNCHANGED server_vars
    /\ UNCHANGED lib_vars
    /\ UNCHANGED <<stream, pos, pc, loop, server_data_type, sent, frames, ready, err>>

Next ==
    \/ ServeAccept
    \/ ServeFrameReady
    \/ ServeRecv
    \/ ServeReadSuspend
    \/ ServeReadResume
    \/ ServeProcessFrame
    \/ ServeDrained
    \/ ServeRunTask

Init == ServeInit

Spec == Init /\ [][Next]_vars

\* One connection whose peer sends a Control frame with a control length
\* below 4: no payload, one byte of a control type, or two bytes, at the
\* start of the connection or after READY, START and a Data frame.
ShortInit ==
    /\ stream \in
        { before \o to_bytes(0) \o to_bytes(Len(payload)) \o payload :
            before \in {<<>>, READY_X \o START_X \o DATA_A},
            payload \in { <<>>, <<FSTRM_CONTROL_STOP>>, <<FSTRM_CONTROL_START>>,
                          <<FSTRM_CONTROL_READY>>, <<0, FSTRM_CONTROL_STOP>> } }
    /\ pos = 0
    /\ loop \in BOOLEAN
    /\ server_data_type = NoType
    /\ processor = DataProcessor(NoType)
    /\ pc = "accept"
    /\ readyq = <<>>
    /\ sent = <<>>
    /\ calls = <<>>
    /\ frames = <<>>
    /\ ready = "none"
    /\ err = ""
    /\ conns = <<>>
    /\ processors = {}
    /\ listening = FALSE
    /\ pb = <<>>
    /\ flow = <<>>
    /\ agent = <<>>

SpecShort == ShortInit /\ [][Next]_vars

----------------------------------------------------------------------------
(* The server with several connections: Server.listen serves them one      *)
(* after the other, the asyncio server runs one process_data coroutine per *)
(* connection on one event loop, one coroutine or task at a time between   *)
(* two awaits. A read returns all the bytes asked for that the peer has    *)
(* written. Consumer.consume returns True or False or raises.              *)
(*                                                                         *)
(* conns[c].pc is "none" before the connection is accepted, then as pc.    *)

MaxConns == 2

ConnIds == 1..MaxConns

\* The content type "YZ".
TypeL == <<89, 90>>

\* What the peers of the server write: a handshake and a Data frame, ended
\* by the end of the stream; a session of another content type ended by
\* STOP; a control frame of a type that is not for the server; a malformed
\* READY, whose Content-Type field declares more bytes than it has.
ConnStreams ==
    { READY_X \o START_X \o DATA_A,
      ControlFrame(FSTRM_CONTROL_READY, ContentTypeField(TypeL)) \o STOP,
      ACCEPT(TypeX),
      ControlFrame(FSTRM_CONTROL_READY,
                   to_bytes(FSTRM_CONTROL_FIELD_CONTENT_TYPE) \o to_bytes(2) \o TypeX) }

\* What Consumer.consume does with a frame.
ConsumeOutcomes == {"True", "False", "raise"}

\* The Consumer callbacks made for a connection; raised: the callback raised
\* instead of returning.
ConnCalls(made, raised) ==
    [i \in 1..Len(made) |-> [call |-> made[i], raised |-> raised]]

\* A task created by connection c.
ConnTasks(c, created) ==
    [i \in 1..Len(created) |->
        [conn |-> c, id |-> created[i].id, frame |-> created[i].frame]]

\* process_data of connection d is running (not suspended in an await).
OnLoop(d) == loop /\ conns[d].pc \in {"frame_ready", "recv", "process"}

\* The event loop is free: no process_data coroutine is running.
LoopFree == \A d \in ConnIds : ~OnLoop(d)

ServerInit ==
    /\ loop \in BOOLEAN
    /\ server_data_type \in {NoType, Some(TypeX)}
    /\ conns \in [ConnIds -> { [stream |-> st, pos |-> 0,
                                processor |-> DataProcessor(NoType),
                                pc |-> "none", nframes |-> 0, sent |-> <<>>,
                                calls |-> <<>>,
                                err |-> "", open |-> FALSE] : st \in ConnStreams }]
    /\ processors = {}
    /\ listening = TRUE
    /\ pb = <<>>
    /\ flow = <<>>
    /\ agent = <<>>
    /\ readyq = <<>>
    /\ calls = <<>>
    /\ stream = <<>>
    /\ pos = 0
    /\ processor = DataProcessor(NoType)
    /\ pc = "server"
    /\ sent = <<>>
    /\ frames = <<>>
    /\ ready = "none"
    /\ err = ""

\* What no step of the server changes.
ServerFrame == UNCHANGED <<stream, pos, processor, pc, loop, server_data_type, sent,
                           calls, frames, ready, err, pb, flow, agent>>

\* listen: conn, client = self.sock.accept(); processor = DataProcessor(...),
\* once the connection before is closed.
\* process_data: processor = DataProcessor(self.data_type);
\* self.processors.add(processor)
ServerAccept(c) ==
    /\ listening
    /\ conns[c].pc = "none"
    /\ \A d \in 1..(c - 1) : conns[d].pc # "none"
    /\ IF loop THEN LoopFree ELSE \A d \in 1..(c - 1) : conns[d].pc = "closed"
    /\ conns' = [conns EXCEPT ![c] = [@ EXCEPT !.processor = DataProcessor(server_data_type),
                                               !.pc = "frame_ready",
                                               !.open = TRUE]]
    /\ processors' = IF loop THEN processors \cup {c} ELSE processors
    /\ UNCHANGED <<listening, readyq>>
    /\ ServerFrame

\* while not processor.frame_ready(): ...
ServerFrameReady(c) ==
    /\ conns[c].pc = "frame_ready"
    /\ LET r == frame_ready(conns[c].processor) IN
        conns' = [conns EXCEPT ![c] = [@ EXCEPT
                    !.processor = r.p,
                    !.nframes = IF r.ret /\ conns[c].processor.running
                                THEN @ + 1 ELSE @,
                    !.pc = IF r.ret THEN "process" ELSE "recv"]]
    /\ UNCHANGED <<processors, listening, readyq>>
    /\ ServerFrame

\* The loop is left through its end: conn.close() in listen, writer.close()
\* and self.processors.remove(processor) in process_data.
Closed(cn) == [cn EXCEPT !.pc = "closed", !.open = FALSE]

\* data = conn.recv(n) / reader.read(n) has returned, and what the loop does
\* with it.
ServerReceived(c) ==
    LET cn == conns[c]
        n  == read_size(cn.processor)
        k  == Min(n, Len(cn.stream) - cn.pos)
        d  == connection_done(cn.processor)
    IN  IF k >= 1
        THEN /\ conns' = [conns EXCEPT ![c] = [cn EXCEPT
                            !.processor = append(cn.processor,
                                                 SubSeq(cn.stream, cn.pos + 1, cn.pos + k)),
                            !.pos = cn.pos + k,
                            !.pc = "frame_ready"]]
             /\ UNCHANGED processors
        ELSE /\ conns' = [conns EXCEPT ![c] = Closed([cn EXCEPT
                            !.processor = d.p,
                            !.calls = cn.calls \o ConnCalls(d.calls, FALSE)])]
             /\ processors' = processors \ {c}

\* data = conn.recv(processor.read_size()), and
\* data = await reader.read(processor.read_size()) when it does not suspend.
ServerRecv(c) ==
    /\ conns[c].pc = "recv"
    /\ ServerReceived(c)
    /\ UNCHANGED <<listening, readyq>>
    /\ ServerFrame

\* data = await reader.read(...) suspends process_data.
ServerReadSuspend(c) ==
    /\ conns[c].pc = "recv"
    /\ loop
    /\ conns' = [conns EXCEPT ![c].pc = "read_wait"]
    /\ UNCHANGED <<processors, listening, readyq>>
    /\ ServerFrame

\* The tasks that connection c created have all run.
NoTaskOf(c) == \A i \in 1..Len(readyq) : readyq[i].conn # c

\* process_data resumes from await reader.read(...), behind the tasks it
\* created.
ServerReadResume(c) ==
    /\ conns[c].pc = "read_wait"
    /\ LoopFree
    /\ NoTaskOf(c)
    /\ ServerReceived(c)
    /\ UNCHANGED <<listening, readyq>>
    /\ ServerFrame

\* processor.process_frame(...) and what the loop does with its status. An
\* exception leaves process_data, and leaves listen, which serves no more.
ServerProcessFrame(c) ==
    /\ conns[c].pc = "process"
    /\ \E out \in ConsumeOutcomes :
        LET cn == conns[c]
            p  == cn.processor
            r  == IF out = "raise"
                  THEN consume_raises(p, cn.nframes)
                  ELSE process_frame(p, loop, cn.nframes, out = "True")
            d  == connection_done(r.p)
        IN  /\ out = "raise" => (p.running /\ ~p.is_control_frame /\ ~loop)
            /\ readyq' = readyq \o ConnTasks(c, r.tasks)
            /\ IF r.err # "" THEN
                    /\ conns' = [conns EXCEPT ![c] = [cn EXCEPT
                                    !.processor = r.p, !.pc = "error", !.err = r.err,
                                    !.calls = cn.calls \o ConnCalls(r.calls, out = "raise")]]
                    /\ listening' = loop
                    /\ UNCHANGED processors
               ELSE IF r.status = 0 THEN
                    /\ conns' = [conns EXCEPT ![c] = Closed([cn EXCEPT
                                    !.processor = d.p,
                                    !.calls = cn.calls \o ConnCalls(r.calls \o d.calls, FALSE)])]
                    /\ processors' = processors \ {c}
                    /\ UNCHANGED listening
               ELSE /\ \E next \in {"frame_ready", "drain_wait"} :
                        /\ next = "drain_wait" =>
                              (loop /\ r.status = FSTRM_CONTROL_READY)
                        /\ conns' = [conns EXCEPT ![c] = [cn EXCEPT
                                        !.processor = r.p, !.pc = next,
                                        !.sent = cn.sent \o r.sent,
                                        !.calls = cn.calls \o ConnCalls(r.calls, FALSE)]]
                    /\ UNCHANGED <<processors, listening>>
    /\ ServerFrame

\* process_data resumes from await writer.drain().
ServerDrained(c) ==
    /\ conns[c].pc = "drain_wait"
    /\ LoopFree
    /\ NoTaskOf(c)
    /\ conns' = [conns EXCEPT ![c].pc = "frame_ready"]
    /\ UNCHANGED <<processors, listening, readyq>>
    /\ ServerFrame

\* The loop runs the next task, a schedule_consumer(consumer, frame, promise)
\* of some connection, while no process_data is running.
ServerRunTask ==
    /\ readyq # <<>>
    /\ LoopFree
    /\ \E out \in ConsumeOutcomes :
        LET i == next_task(readyq)
            c == readyq[i].conn
            r == IF out = "raise"
                 THEN schedule_consumer_raises(conns[c].processor, readyq[i])
                 ELSE schedule_consumer(conns[c].processor, readyq[i], out = "True")
        IN  /\ conns' = [conns EXCEPT ![c] = [@ EXCEPT
                            !.processor = r.p,
                            !.calls = @ \o ConnCalls(r.calls, out = "raise")]]
            /\ readyq' = SubSeq(readyq, 1, i - 1) \o SubSeq(readyq, i + 1, Len(readyq))
    /\ UNCHANGED <<processors, listening>>
    /\ ServerFrame

\* process_data is cancelled while it awaits: except (KeyboardInterrupt,
\* CancelledError): active = False, then writer.close() and
\* self.processors.remove(processor).
ServerCancel(c) ==
    /\ conns[c].pc \in {"read_wait", "drain_wait"}
    /\ LoopFree
    /\ conns' = [conns EXCEPT ![c] = Closed(@)]
    /\ processors' = processors \ {c}
    /\ UNCHANGED <<listening, readyq>>
    /\ ServerFrame

ServerNext ==
    \/ \E c \in ConnIds : ServerAccept(c)
    \/ \E c \in ConnIds : ServerFrameReady(c)
    \/ \E c \in ConnIds : ServerRecv(c)
    \/ \E c \in ConnIds : ServerReadSuspend(c)
    \/ \E c \in ConnIds : ServerReadResume(c)
    \/ \E c \in ConnIds : ServerProcessFrame(c)
    \/ \E c \in ConnIds : ServerDrained(c)
    \/ ServerRunTask
    \/ \E c \in ConnIds : ServerCancel(c)

SpecServer == ServerInit /\ [][ServerNext]_vars

----------------------------------------------------------------------------
(* Protobuf decoding: shodohflo/protobuf/protobuf.py with the dnstap        *)
(* schema of shodohflo/protobuf/dnstap.py.                                  *)
(*                                                                         *)
(* byte & 0x7f is byte % 128, byte & 0x80 is byte >= 128, x >> 3 is        *)
(* x \div 8, x & 0x07 is x % 8, (a << 7) | b with b < 128 is a * 128 + b.  *)
(* A call yields a record whose err names the exception raised, "" if none.*)

\* get_varint, "accum = bytes.pop(); while bytes: accum <<= 7; accum |= ..."
\* get_varint taking the first group as the most significant one.
RECURSIVE accumulate_first_group_high(_)
accumulate_first_group_high(groups) ==
    IF Len(groups) = 1 THEN groups[1]
    ELSE accumulate_first_group_high(SubSeq(groups, 1, Len(groups) - 1)) * 128
            + groups[Len(groups)]

RECURSIVE accumulate(_)
accumulate(groups) ==
    IF Len(groups) = 1 THEN groups[1]
    ELSE accumulate(Tail(groups)) * 128 + groups[1]

\* get_varint, the first loop: how many bytes it takes, up to and including
\* the first byte without the continuation bit, or all of s.
varint_bytes(s) ==
    IF \E i \in 1..Len(s) : s[i] < 128
    THEN CHOOSE i \in 1..Len(s) : s[i] < 128 /\ \A j \in 1..(i - 1) : s[j] >= 128
    ELSE Len(s)

\* ProtobufField.get_varint(s): bytes.pop() of an empty list raises.
get_varint(s) ==
    LET i == varint_bytes(s) IN
    IF i = 0 THEN [err |-> "IndexError", s |-> s, v |-> 0]
    ELSE [err |-> "", s |-> Drop(s, i),
          v |-> accumulate([k \in 1..i |-> s[k] % 128])]

\* ProtobufField.get_field_header(s)
get_field_header(s) ==
    LET h == get_varint(s) IN
    [err |-> h.err, s |-> h.s, id |-> h.v \div 8, wtype |-> h.v % 8]

\* ProtobufVarintField.svi2si(v)
svi2si(v) ==
    LET neg == v % 2
        w   == v \div 2
    IN  IF neg = 1 THEN (w + 1) * (-1) ELSE w

\* ProtobufFixedIntField.m2i(pkt, x): x[len(x) - 1] of an empty x raises.
RECURSIVE fixed_accum(_)
fixed_accum(x) ==
    IF Len(x) = 1 THEN x[1] % 256
    ELSE fixed_accum(Tail(x)) * 256 + (x[1] % 256)

fixed_m2i(x) ==
    IF x = <<>> THEN [err |-> "IndexError", v |-> 0]
    ELSE [err |-> "", v |-> fixed_accum(x)]

\* What a field holds: an int, bytes, a str ('' of an unknown wire type), or
\* the Protobuf of an embedded message.
IntVal(i)   == [kind |-> "int", int |-> i, bytes |-> <<>>, msg |-> <<>>]
BytesVal(b) == [kind |-> "bytes", int |-> 0, bytes |-> b, msg |-> <<>>]
StrVal      == [kind |-> "str", int |-> 0, bytes |-> <<>>, msg |-> <<>>]
MsgVal(m)   == [kind |-> "msg", int |-> 0, bytes |-> <<>>, msg |-> <<m>>]

\* A field descriptor of a fields_desc list: key names the shared object.
Desc(key, cls, name, id) == [key |-> key, cls |-> cls, pb_name |-> name, pb_id |-> id]

\* dnstap.Message.fields_desc
MessageFields ==
    << Desc("Message.type", "EnumField", "type", 1),
       Desc("Message.socket_family", "EnumField", "socket_family", 2),
       Desc("Message.socket_protocol", "EnumField", "socket_protocol", 3),
       Desc("Message.query_address", "IpAddressField", "query_address", 4),
       Desc("Message.response_address", "IpAddressField", "response_address", 5),
       Desc("Message.query_port", "PbUInt32Field", "query_port", 6),
       Desc("Message.response_port", "PbUInt32Field", "response_port", 7),
       Desc("Message.query_time_sec", "PbUInt64Field", "query_time_sec", 8),
       Desc("Message.query_time_nsec", "PbFixed32Field", "query_time_nsec", 9),
       Desc("Message.query_message", "DnsMessageField", "query_message", 10),
       Desc("Message.query_zone", "PbAnyField", "query_zone", 11),
       Desc("Message.response_time_sec", "PbUInt64Field", "response_time_sec", 12),
       Desc("Message.response_time_nsec", "PbFixed32Field", "response_time_nsec", 13),
       Desc("Message.response_message", "DnsMessageField", "response_message", 14) >>

\* dnstap.Dnstap.fields_desc
DnstapFields ==
    << Desc("Dnstap.identity", "StringField", "identity", 1),
       Desc("Dnstap.version", "StringField", "version", 2),
       Desc("Dnstap.extra", "PbAnyField", "extra", 3),
       Desc("Dnstap.type", "EnumField", "type", 15),
       Desc("Dnstap.message", "ProtobufEmbeddedField", "message", 14) >>

fields_desc(cls) == IF cls = "Dnstap" THEN DnstapFields ELSE MessageFields

\* The keys of the shared descriptors of both classes.
DescKeys ==
    {DnstapFields[i].key : i \in 1..Len(DnstapFields)}
        \cup {MessageFields[i].key : i \in 1..Len(MessageFields)}

\* The attributes of the shared descriptors that a decode can write: sz (and
\* fmt, "!<sz>s") of set_format, None until the first call, and
\* pb_log_wire_type of ProtobufEmbeddedField.__init__.
InitialDescriptors == [k \in DescKeys |-> [sz |-> None, pb_log_wire_type |-> FALSE]]

\* ProtobufField.set_format(size) on a shared descriptor; a dummy field is
\* the Protobuf's own.
set_format(desc, field, size) ==
    IF field.key \in DescKeys THEN [desc EXCEPT ![field.key].sz = size] ELSE desc

\* Protobuf.__init__ before do_dissect. fields and dummies (the dummy fields
\* that DummyField puts in fields_by_id under their names) are in the order
\* of their insertion; fields_by_id of the schema is fields_desc.
Protobuf(cls, log_wire_type) ==
    [cls |-> cls, fields |-> <<>>, fields_seen |-> <<>>, dummy_count |-> 0,
     dummies |-> <<>>, log_wire_type |-> log_wire_type, more |-> <<>>]

\* self.fields[name] = fval
SetField(fields, name, fval) ==
    IF \E i \in 1..Len(fields) : fields[i].name = name
    THEN [i \in 1..Len(fields) |->
            IF fields[i].name = name THEN [name |-> name, value |-> fval] ELSE fields[i]]
    ELSE Append(fields, [name |-> name, value |-> fval])

\* The keys of a dictionary that the code keys by ints and by strs.
IntKey(i)  == [int |-> i, str |-> ""]
StrKey(n)  == [int |-> None, str |-> n]

\* IpAddressField.m2i: IPv4Address of 4 bytes, else IPv6Address, which takes
\* 16 bytes and nothing else.
ip_m2i(x) ==
    IF Len(x) \in {4, 16} THEN [err |-> "", v |-> BytesVal(x)]
    ELSE [err |-> "AddressValueError", v |-> StrVal]

\* DnsMessageField.m2i: dns.message.from_wire refuses what is shorter than
\* the 12 bytes of a DNS header; the message is kept as its wire bytes.
dns_m2i(x) ==
    IF Len(x) >= 12 THEN [err |-> "", v |-> BytesVal(x)]
    ELSE [err |-> "ShortHeader", v |-> StrVal]

\* What getfield yields: the exception raised, the stream that is left, the
\* value, the id that the field has afterwards and the shared descriptors.
Got(e, s, v, id, desc) == [err |-> e, s |-> s, v |-> v, pb_id |-> id, desc |-> desc]

\* "if self.pb_id is None: self.pb_id = id; else: self.check_field_id(pkt, id)"
id_error(field, id) ==
    IF field.pb_id # None /\ field.pb_id # id THEN "FieldIDMismatchError" ELSE ""

\* PbAnyField.getfield(pkt, s)
any_getfield(field, s, desc) ==
    LET h   == get_field_header(s)
        id  == IF field.pb_id = None THEN h.id ELSE field.pb_id
        l   == get_varint(h.s)
    IN  IF h.err # "" THEN Got(h.err, s, StrVal, field.pb_id, desc)
        ELSE IF id_error(field, h.id) # "" THEN Got(id_error(field, h.id), s, StrVal, id, desc)
        ELSE IF h.wtype = 2 THEN
            IF l.err # "" THEN Got(l.err, s, StrVal, id, desc)
            ELSE Got("", Drop(l.s, l.v), BytesVal(Take(l.s, l.v)), id,
                     set_format(desc, field, l.v))
        ELSE IF h.wtype = 0 THEN
            IF l.err # "" THEN Got(l.err, s, StrVal, id, desc)
            ELSE Got("", l.s, IntVal(l.v), id,
                     set_format(desc, field, Len(h.s) - Len(l.s)))
        ELSE IF h.wtype = 1 THEN
            Got("", Drop(h.s, 8), BytesVal(Take(h.s, 8)), id, set_format(desc, field, 8))
        ELSE IF h.wtype = 5 THEN
            Got("", Drop(h.s, 4), BytesVal(Take(h.s, 4)), id, set_format(desc, field, 4))
        ELSE Got("", h.s, StrVal, id, desc)

\* A PbBytesField.getfield that takes whatever wire type comes as a length.
bytes_getfield_any_wtype(field, s, desc) ==
    LET h == get_field_header(s)
        l == get_varint(h.s)
        x == Take(l.s, l.v)
        m == IF field.cls = "IpAddressField" THEN ip_m2i(x)
             ELSE IF field.cls = "DnsMessageField" THEN dns_m2i(x)
             ELSE [err |-> "", v |-> BytesVal(x)]
    IN  IF h.err # "" THEN Got(h.err, s, StrVal, field.pb_id, desc)
        ELSE IF l.err # "" THEN Got(l.err, s, StrVal, field.pb_id, desc)
        ELSE Got(m.err, Drop(l.s, l.v), m.v, field.pb_id, set_format(desc, field, l.v))

\* PbBytesField.getfield(pkt, s) of a field with no length_from and no cls,
\* as StringField, IpAddressField and DnsMessageField are.
bytes_getfield(field, s, desc) ==
    LET h == get_field_header(s)
        l == get_varint(h.s)
        x == Take(l.s, l.v)
        m == IF field.cls = "IpAddressField" THEN ip_m2i(x)
             ELSE IF field.cls = "DnsMessageField" THEN dns_m2i(x)
             ELSE [err |-> "", v |-> BytesVal(x)]
    IN  IF h.err # "" THEN Got(h.err, s, StrVal, field.pb_id, desc)
        ELSE IF id_error(field, h.id) # "" THEN Got(id_error(field, h.id), s, StrVal, field.pb_id, desc)
        ELSE IF h.wtype # 2 THEN Got("FieldTypeMismatchError", s, StrVal, field.pb_id, desc)
        ELSE IF l.err # "" THEN Got(l.err, s, StrVal, field.pb_id, desc)
        ELSE Got(m.err, Drop(l.s, l.v), m.v, field.pb_id, set_format(desc, field, l.v))

\* ProtobufVarintField.getfield(pkt, s); m2i is the identity for EnumField,
\* PbUInt32Field and PbUInt64Field.
varint_getfield(field, s, desc) ==
    LET h == get_field_header(s)
        l == get_varint(h.s)
    IN  IF h.err # "" THEN Got(h.err, s, StrVal, field.pb_id, desc)
        ELSE IF id_error(field, h.id) # "" THEN Got(id_error(field, h.id), s, StrVal, field.pb_id, desc)
        ELSE IF h.wtype # 0 THEN Got("FieldTypeMismatchError", s, StrVal, field.pb_id, desc)
        ELSE IF l.err # "" THEN Got(l.err, s, StrVal, field.pb_id, desc)
        ELSE Got("", l.s, IntVal(l.v), field.pb_id,
                 set_format(desc, field, Len(h.s) - Len(l.s)))

\* PbFixed32Field: WTYPE, BYTES
WTYPE == 5
BYTES == 4

\* ProtobufFixedIntField.getfield(pkt, s)
fixed_getfield(field, s, desc) ==
    LET h == get_field_header(s)
        m == fixed_m2i(Take(h.s, BYTES))
    IN  IF h.err # "" THEN Got(h.err, s, StrVal, field.pb_id, desc)
        ELSE IF id_error(field, h.id) # "" THEN Got(id_error(field, h.id), s, StrVal, field.pb_id, desc)
        ELSE IF h.wtype # WTYPE THEN Got("FieldTypeMismatchError", s, StrVal, field.pb_id, desc)
        ELSE Got(m.err, Drop(h.s, BYTES), IntVal(m.v), field.pb_id,
                 set_format(desc, field, BYTES))

RECURSIVE do_dissect(_, _, _)
RECURSIVE getfield(_, _, _, _)
RECURSIVE dissect_step(_, _, _)

\* ProtobufEmbeddedField.getfield: what it returns once m2i has built the
\* embedded Protobuf m from the l.v bytes that follow the length.
embedded_got(field, l, m) == Got(m.err, Drop(l.s, l.v), MsgVal(m.pkt), field.pb_id, m.desc)

\* ProtobufEmbeddedField.getfield handing m2i all of s after the length.
embedded_getfield_whole_rest(field, s, desc, log_wire_type) ==
    LET h == get_field_header(s)
        l == get_varint(h.s)
    IN  IF h.err # "" THEN Got(h.err, s, StrVal, field.pb_id, desc)
        ELSE IF id_error(field, h.id) # "" THEN Got(id_error(field, h.id), s, StrVal, field.pb_id, desc)
        ELSE IF h.wtype # 2 THEN Got("FieldTypeMismatchError", s, StrVal, field.pb_id, desc)
        ELSE IF l.err # "" THEN Got(l.err, s, StrVal, field.pb_id, desc)
        ELSE embedded_got(field, l,
                do_dissect(Protobuf("Message", log_wire_type), l.s,
                           set_format(desc, field, l.v)))

\* ProtobufEmbeddedField.getfield(pkt, s): m2i builds the embedded Protobuf
\* from s[:l], which dissects it.
embedded_getfield(field, s, desc, log_wire_type) ==
    LET h == get_field_header(s)
        l == get_varint(h.s)
    IN  IF h.err # "" THEN Got(h.err, s, StrVal, field.pb_id, desc)
        ELSE IF id_error(field, h.id) # "" THEN Got(id_error(field, h.id), s, StrVal, field.pb_id, desc)
        ELSE IF h.wtype # 2 THEN Got("FieldTypeMismatchError", s, StrVal, field.pb_id, desc)
        ELSE IF l.err # "" THEN Got(l.err, s, StrVal, field.pb_id, desc)
        ELSE embedded_got(field, l,
                do_dissect(Protobuf("Message", log_wire_type), Take(l.s, l.v),
                           set_format(desc, field, l.v)))

\* field.getfield(self, s), by the class of the field: a subclass of
\* PbBytesField, of ProtobufVarintField, of ProtobufFixedIntField, the
\* ProtobufEmbeddedField or a PbAnyField.
getfield(field, s, desc, log_wire_type) ==
    IF field.cls \in {"StringField", "IpAddressField", "DnsMessageField"}
        THEN bytes_getfield(field, s, desc)
    ELSE IF field.cls \in {"EnumField", "PbUInt32Field", "PbUInt64Field"}
        THEN varint_getfield(field, s, desc)
    ELSE IF field.cls = "PbFixed32Field" THEN fixed_getfield(field, s, desc)
    ELSE IF field.cls = "ProtobufEmbeddedField"
        THEN embedded_getfield(field, s, desc, log_wire_type)
    ELSE any_getfield(field, s, desc)

\* "(id in self.fields_by_id) and self.fields_by_id[id] or self.DummyField()":
\* an int id is a key of the schema's descriptors only, a dummy field being
\* stored under its name.
InSchema(cls, id) == \E i \in 1..Len(fields_desc(cls)) : fields_desc(cls)[i].pb_id = id

SchemaField(cls, id) ==
    fields_desc(cls)[CHOOSE i \in 1..Len(fields_desc(cls)) : fields_desc(cls)[i].pb_id = id]

\* Protobuf.DummyField(): a PbAnyField with no id, the Protobuf's own.
DummyField(pkt) ==
    [key |-> "", cls |-> "PbAnyField",
     pb_name |-> << "(unknown_1)", "(unknown_2)", "(unknown_3)", "(unknown_4)",
                    "(unknown_5)", "(unknown_6)" >>[pkt.dummy_count + 1],
     pb_id |-> None]

\* The keys of self.fields_by_id: "{ f.pb_id:f for f in self.fields_desc }"
\* of __init__, and for every DummyField() "self.fields_by_id[field.pb_name]".
fields_by_id(pkt) ==
    { IntKey(fields_desc(pkt.cls)[i].pb_id) : i \in 1..Len(fields_desc(pkt.cls)) }
        \cup { StrKey(pkt.dummies[i]) : i \in 1..Len(pkt.dummies) }

\* The keys of self.fields_by_name, which __init__ alone writes.
fields_by_name(pkt) ==
    { fields_desc(pkt.cls)[i].pb_name : i \in 1..Len(fields_desc(pkt.cls)) }

\* What a run of do_dissect yields: the exception raised, the Protobuf, the
\* stream that is left and the shared descriptors.
Dissected(e, pkt, s, desc) == [err |-> e, pkt |-> pkt, s |-> s, desc |-> desc]

\* Protobuf.do_dissect: "self.fields[field.pb_name] = fval" and
\* "self.fields_seen.append(field)" after field.getfield has returned g; an
\* exception of getfield leaves do_dissect.
dissect_got(pkt, field, s, g) ==
    IF g.err # "" THEN Dissected(g.err, pkt, s, g.desc)
    ELSE Dissected("",
            [pkt EXCEPT !.fields = SetField(@, field.pb_name, g.v),
                        !.fields_seen = Append(@, [pb_name |-> field.pb_name,
                                                    pb_id |-> g.pb_id])],
            g.s, g.desc)

\* Protobuf.do_dissect, one turn of "while s:" with s not empty.
dissect_step(pkt, s, desc) ==
    LET h     == get_field_header(s)
        known == InSchema(pkt.cls, h.id)
        field == IF known THEN SchemaField(pkt.cls, h.id) ELSE DummyField(pkt)
        pkt1  == IF known THEN pkt
                 ELSE [pkt EXCEPT !.dummy_count = @ + 1,
                                  !.dummies = Append(@, field.pb_name)]
        desc1 == IF field.cls = "ProtobufEmbeddedField"
                 THEN [desc EXCEPT ![field.key].pb_log_wire_type = pkt.log_wire_type]
                 ELSE desc
    IN  dissect_got(pkt1, field, s, getfield(field, s, desc1, pkt.log_wire_type))

RECURSIVE dissect_next(_)

\* Protobuf.do_dissect(s), as Protobuf.__init__ calls it: self.more is what
\* it returns.
do_dissect(pkt, s, desc) ==
    IF s = <<>> THEN Dissected("", [pkt EXCEPT !.more = s], s, desc)
    ELSE dissect_next(dissect_step(pkt, s, desc))

\* Protobuf.do_dissect: after a turn that yielded r, the next turn of
\* "while s:".
dissect_next(r) == IF r.err # "" THEN r ELSE do_dissect(r.pkt, r.s, r.desc)

\* What no step of a decode changes.
LibFrame == UNCHANGED <<stream, pos, processor, pc, loop, server_data_type, readyq, sent,
                        calls, frames, ready, err, conns, processors, listening>>

\* The state of everything but pb while the library decodes.
LibInit ==
    /\ stream = <<>>
    /\ pos = 0
    /\ processor = DataProcessor(NoType)
    /\ pc = "decode"
    /\ loop = FALSE
    /\ server_data_type = NoType
    /\ readyq = <<>>
    /\ sent = <<>>
    /\ calls = <<>>
    /\ frames = <<>>
    /\ ready = "none"
    /\ err = ""
    /\ conns = <<>>
    /\ processors = {}
    /\ listening = FALSE

\* The tag of a field: the varint of (id << 3) | wtype, for ids below 16 one
\* byte, for id 99 two.
Tag(id, wtype) ==
    LET h == id * 8 + wtype IN
    IF h < 128 THEN <<h>> ELSE <<(h % 128) + 128, h \div 128>>

\* The elements of a sequence, the values of a record.
Range(f) == { f[i] : i \in DOMAIN f }

\* Fields of a Dnstap message as a sender writes them: identity "ab", type
\* TYPE_MESSAGE, a field of id 99 and wire type 2 that the schema does not
\* have, a message with type, query_port and query_time_nsec, a message with
\* type and a field of id 99.
WellFormed ==
    [identity |-> Tag(1, 2) \o <<2, 97, 98>>,
     type     |-> Tag(15, 0) \o <<1>>,
     unknown  |-> Tag(99, 2) \o <<1, 7>>,
     message  |-> Tag(14, 2) \o <<9>> \o Tag(1, 0) \o <<5>> \o Tag(6, 0) \o <<53>>
                    \o Tag(9, 5) \o <<1, 0, 0, 0>>,
     message_unknown |-> Tag(14, 2) \o <<6>> \o Tag(1, 0) \o <<5>>
                            \o Tag(99, 2) \o <<1, 7>>]

\* Fields whose wire type is not the one of their descriptor: type (an
\* EnumField) as bytes, identity (a StringField) as a varint, message as a
\* varint, and within a message query_time_nsec (a PbFixed32Field) as a
\* varint and query_address (an IpAddressField) as a fixed32.
Mismatched ==
    [type     |-> Tag(15, 2) \o <<1, 1>>,
     identity |-> Tag(1, 0) \o <<5>>,
     message  |-> Tag(14, 0) \o <<1>>,
     nsec     |-> Tag(14, 2) \o <<2>> \o Tag(9, 0) \o <<1>>,
     address  |-> Tag(14, 2) \o <<5>> \o Tag(4, 5) \o <<1, 2, 3, 4>>]

\* Fields that end before their value does: identity declaring 5 bytes with
\* 2 there, within a message query_time_nsec with 2 of its 4 bytes, type as
\* a varint whose last byte has the continuation bit.
Truncated ==
    [identity |-> Tag(1, 2) \o <<5, 97, 98>>,
     nsec     |-> Tag(14, 2) \o <<3>> \o Tag(9, 5) \o <<1, 0>>,
     type     |-> Tag(15, 0) \o <<128>>]

MaxFields == 3

\* dnstap.Dnstap(frame, log_wire_type) is about to be called on the payload
\* made of the up to MaxFields fields of items; the classes have been
\* defined.
PbInit ==
    /\ pb \in { [items |-> fs, payload |-> Flatten(fs), log_wire_type |-> lw,
                 status |-> "start", pkt |-> Protobuf("Dnstap", lw), s |-> <<>>,
                 desc |-> InitialDescriptors, err |-> "", result |-> <<>>] :
                fs \in UNION { [1..k -> Range(WellFormed) \cup Range(Mismatched)
                                            \cup Range(Truncated)] : k \in 0..MaxFields },
                lw \in BOOLEAN }
    /\ LibInit
    /\ flow = <<>>
    /\ agent = <<>>

\* Protobuf.__init__ up to the call of do_dissect(wire_data).
PbNew ==
    /\ pb.status = "start"
    /\ pb' = [pb EXCEPT !.status = "dissect", !.s = pb.payload,
                        !.pkt = Protobuf("Dnstap", pb.log_wire_type)]
    /\ LibFrame
    /\ UNCHANGED <<flow, agent>>

\* do_dissect: one turn of "while s:". An exception leaves __init__, and no
\* Protobuf is returned.
PbDissect ==
    /\ pb.status = "dissect"
    /\ pb.s # <<>>
    /\ LET r == dissect_step(pb.pkt, pb.s, pb.desc) IN
        pb' = IF r.err # ""
              THEN [pb EXCEPT !.status = "error", !.err = r.err, !.pkt = r.pkt,
                              !.desc = r.desc]
              ELSE [pb EXCEPT !.pkt = r.pkt, !.s = r.s, !.desc = r.desc]
    /\ LibFrame
    /\ UNCHANGED <<flow, agent>>

\* do_dissect returns s, __init__ sets self.more: the Protobuf is returned.
PbReturn ==
    /\ pb.status = "dissect"
    /\ pb.s = <<>>
    /\ LET r == do_dissect(pb.pkt, pb.s, pb.desc) IN
        pb' = [pb EXCEPT !.status = "done", !.pkt = r.pkt, !.result = <<r.pkt>>]
    /\ LibFrame
    /\ UNCHANGED <<flow, agent>>

PbNext == PbNew \/ PbDissect \/ PbReturn

SpecPb == PbInit /\ [][PbNext]_vars

----------------------------------------------------------------------------
(* The primitive kinds of the wire format, each decoded from the encoding  *)
(* of a value followed by other bytes.                                     *)

\* The canonical encoding of an unsigned varint: groups of 7 bits, least
\* significant first, the continuation bit on all but the last.
RECURSIVE encode_varint(_)
encode_varint(v) ==
    IF v < 128 THEN <<v>> ELSE <<(v % 128) + 128>> \o encode_varint(v \div 128)

\* The sign-in-low-bit encoding of a signed integer.
encode_signed(n) == IF n >= 0 THEN 2 * n ELSE (-2) * n - 1

\* A fixed32: 4 bytes, little-endian.
encode_fixed32(v) ==
    << v % 256, (v \div 256) % 256, (v \div 65536) % 256, (v \div 16777216) % 256 >>

MaxValue == 300

\* Values of one and two groups, and the first and last values of longer
\* encodings.
UnsignedValues ==
    0..MaxValue \cup {16383, 16384, 2097151, 2097152, 268435455, 268435456, 2147483647}

\* What follows the encoding in the buffer.
Trailers == { <<>>, <<0>>, <<129, 1>>, <<255>> }

\* A value and what follows it are in the buffer; or the buffer is no
\* varint: empty, ending in a byte with the continuation bit, or of 11 groups.
PrimInit ==
    /\ pb \in { [kind |-> "varint", v |-> v, buffer |-> encode_varint(v) \o t,
                 trailer |-> t, out |-> <<>>] : v \in UnsignedValues, t \in Trailers }
          \cup { [kind |-> "signed", v |-> v,
                  buffer |-> encode_varint(encode_signed(v)) \o t,
                  trailer |-> t, out |-> <<>>] :
                    v \in (-MaxValue)..MaxValue \cup {-1000000, 1073741823}, t \in Trailers }
          \cup { [kind |-> "fixed32", v |-> v,
                  buffer |-> Tag(9, WTYPE) \o encode_fixed32(v) \o t,
                  trailer |-> t, out |-> <<>>] : v \in UnsignedValues, t \in Trailers }
          \cup { [kind |-> "raw", v |-> 0, buffer |-> b, trailer |-> <<>>,
                  out |-> <<>>] :
                    b \in { <<>>, <<128>>, <<255, 255>>, <<129, 128, 128>>,
                            <<128, 128, 128, 128, 128, 128, 128, 128, 128, 128, 0>> } }
    /\ LibInit
    /\ flow = <<>>
    /\ agent = <<>>

\* What a primitive decode yields.
Decoded(e, v, s) == [err |-> e, v |-> v, s |-> s]

\* s, v = ProtobufField.get_varint(buffer)
PrimVarint ==
    /\ pb.kind \in {"varint", "raw"}
    /\ pb.out = <<>>
    /\ LET r == get_varint(pb.buffer) IN
        pb' = [pb EXCEPT !.out = <<Decoded(r.err, r.v, r.s)>>]
    /\ LibFrame
    /\ UNCHANGED <<flow, agent>>

\* s, v = get_varint(buffer), then PbInt32Field.m2i: svi2si(v)
PrimSigned ==
    /\ pb.kind = "signed"
    /\ pb.out = <<>>
    /\ LET r == get_varint(pb.buffer) IN
        pb' = [pb EXCEPT !.out = <<Decoded(r.err, svi2si(r.v), r.s)>>]
    /\ LibFrame
    /\ UNCHANGED <<flow, agent>>

\* PbFixed32Field("query_time_nsec", id=9).getfield(pkt, buffer)
PrimFixed32 ==
    /\ pb.kind = "fixed32"
    /\ pb.out = <<>>
    /\ LET r == fixed_getfield(SchemaField("Message", 9), pb.buffer, InitialDescriptors) IN
        pb' = [pb EXCEPT !.out = <<Decoded(r.err, r.v.int, r.s)>>]
    /\ LibFrame
    /\ UNCHANGED <<flow, agent>>

PrimNext == PrimVarint \/ PrimSigned \/ PrimFixed32

SpecPrim == PrimInit /\ [][PrimNext]_vars

----------------------------------------------------------------------------
(* pcap_config: the networks of a NetworkEnumeration and the rules of a    *)
(* FlowMapping. An address 10.0.x.y is the number 256 x + y, a network a   *)
(* range of such numbers.                                                  *)

SOURCE == "src"
DESTINATION == "dst"

\* None where a rule names no network.
NoName == "None"

\* ip_address('10.0.x.y')
Addr(x, y) == x * 256 + y

\* ip_network('10.0.x.0/24')
Net24(x) == [lo |-> x * 256, hi |-> x * 256 + 255]

\* address in cidr
Contains(cidr, address) == cidr.lo <= address /\ address <= cidr.hi

\* NetworkEnumeration.__init__: the id of a name counts the distinct names
\* up to its first line, the id of None being 0.
network_id(enumeration) ==
    LET names    == { enumeration[i].name : i \in 1..Len(enumeration) }
        first(n) == CHOOSE i \in 1..Len(enumeration) :
                        /\ enumeration[i].name = n
                        /\ \A j \in 1..(i - 1) : enumeration[j].name # n
    IN  [ n \in names \cup {NoName} |->
            IF n = NoName THEN 0
            ELSE Cardinality({ enumeration[j].name : j \in 1..first(n) }) ]

NetworkEnumeration(enumeration) ==
    [network_id  |-> network_id(enumeration),
     enumeration |-> [ i \in 1..Len(enumeration) |->
                        [id    |-> network_id(enumeration)[enumeration[i].name],
                         cidrs |-> enumeration[i].cidrs] ]]

\* The same loops when a later network that holds the address replaces an
\* earlier one.
RECURSIVE network_from_last(_, _)
network_from_last(enumeration, address) ==
    IF enumeration = <<>> THEN None
    ELSE IF network_from_last(Tail(enumeration), address) # None
         THEN network_from_last(Tail(enumeration), address)
         ELSE IF \E k \in 1..Len(Head(enumeration).cidrs) :
                     Contains(Head(enumeration).cidrs[k], address)
              THEN Head(enumeration).id
              ELSE None

\* NetworkEnumeration.network(address): the loops over the networks and
\* over the CIDRs of each.
RECURSIVE network_from(_, _)
network_from(enumeration, address) ==
    IF enumeration = <<>> THEN None
    ELSE IF \E k \in 1..Len(Head(enumeration).cidrs) :
                Contains(Head(enumeration).cidrs[k], address)
         THEN Head(enumeration).id
         ELSE network_from(Tail(enumeration), address)

network(ne, address) == network_from(ne.enumeration, address)

\* What MappingAction.match returns: None, or a tuple of client-address,
\* service-address and port-of-interest, which a drop makes (None, None, None).
NoResult == <<>>
Dropped  == <<None, None, None>>

\* args[i] of match(self, *args): src_addr, src_port, dst_addr, dst_port
Arg(args, i) == args[i + 1]

\* PortMatch.__init__
PortMatch(set_of_ports, precedence, drop) ==
    [cls |-> "PortMatch", set_of_ports |-> set_of_ports, all_ports |-> FALSE,
     precedence |-> IF precedence = SOURCE THEN <<0, 2>> ELSE <<2, 0>>,
     mapping |-> <<>>, drop |-> drop]

\* Assign.__init__ with a set of ports, and with set_of_ports=None
AssignPorts(client_from, port_from, set_of_ports, drop) ==
    [cls |-> "Assign", set_of_ports |-> set_of_ports, all_ports |-> FALSE,
     precedence |-> <<>>,
     mapping |-> << IF client_from = SOURCE THEN 0 ELSE 2,
                    IF client_from = SOURCE THEN 2 ELSE 0,
                    IF port_from = SOURCE THEN 1 ELSE 3 >>,
     drop |-> drop]

Assign(client_from, port_from) ==
    [AssignPorts(client_from, port_from, {}, FALSE) EXCEPT !.all_ports = TRUE]

\* LowerPort.__init__
LowerPort(precedence) ==
    [cls |-> "LowerPort", set_of_ports |-> {}, all_ports |-> FALSE,
     precedence |-> <<precedence>>, mapping |-> <<>>, drop |-> FALSE]

\* PortMatch.match when the source port is tried first whatever the
\* precedence.
PortMatch_match_source_first(self, args) ==
    LET hit(i) == Arg(args, i + 1) \in self.set_of_ports
        res(i) == IF self.drop THEN Dropped
                  ELSE << Arg(args, (i + 2) % 4), Arg(args, i), Arg(args, i + 1) >>
    IN  IF hit(0) THEN res(0) ELSE IF hit(2) THEN res(2) ELSE NoResult

\* PortMatch.match(*args)
PortMatch_match(self, args) ==
    LET hit(i) == Arg(args, self.precedence[i] + 1) \in self.set_of_ports
        res(i) == IF self.drop THEN Dropped
                  ELSE << Arg(args, (self.precedence[i] + 2) % 4),
                          Arg(args, self.precedence[i]),
                          Arg(args, self.precedence[i] + 1) >>
    IN  IF hit(1) THEN res(1) ELSE IF hit(2) THEN res(2) ELSE NoResult

\* Assign.match(*args)
Assign_match(self, args) ==
    IF self.all_ports \/ Arg(args, self.mapping[3]) \in self.set_of_ports
    THEN IF self.drop THEN Dropped
         ELSE [ i \in 1..3 |-> Arg(args, self.mapping[i]) ]
    ELSE NoResult

\* LowerPort.match(src_addr, src_port, dst_addr, dst_port)
LowerPort_match(self, args) ==
    LET src_addr == args[1]
        src_port == args[2]
        dst_addr == args[3]
        dst_port == args[4]
    IN  IF src_port < dst_port THEN <<dst_addr, src_addr, src_port>>
        ELSE IF dst_port < src_port THEN <<src_addr, dst_addr, dst_port>>
        ELSE IF self.precedence = <<SOURCE>> THEN <<dst_addr, src_addr, src_port>>
        ELSE <<src_addr, dst_addr, dst_port>>

\* rule[2].match( src_addr, src_port, dst_addr, dst_port )
MappingAction_match(self, args) ==
    IF self.cls = "PortMatch" THEN PortMatch_match(self, args)
    ELSE IF self.cls = "Assign" THEN Assign_match(self, args)
    ELSE LowerPort_match(self, args)

\* A line of a FlowMapping: source network, destination network, action.
Rule(src, dst, action) == [src |-> src, dst |-> dst, action |-> action]

\* FlowMapping.__init__(*enumeration)
FlowMapping(enumeration) == [mapping_enumeration |-> enumeration, network_enumeration |-> <<>>]

\* FlowMapping.number_networks(network_enumeration)
number_networks(self, network_enumeration) ==
    [mapping_enumeration |->
        [ i \in 1..Len(self.mapping_enumeration) |->
            Rule(network_enumeration.network_id[self.mapping_enumeration[i].src],
                 network_enumeration.network_id[self.mapping_enumeration[i].dst],
                 self.mapping_enumeration[i].action) ],
     network_enumeration |-> <<network_enumeration>>]

\* FlowMapping.match continuing behind a rule that drops.
RECURSIVE match_rules_past_drop(_, _, _, _)
match_rules_past_drop(rules, src_id, dst_id, args) ==
    IF rules = <<>> THEN NoResult
    ELSE LET rule == Head(rules) IN
         IF rule.src # 0 /\ rule.src # src_id
            THEN match_rules_past_drop(Tail(rules), src_id, dst_id, args)
         ELSE IF rule.dst # 0 /\ rule.dst # dst_id
            THEN match_rules_past_drop(Tail(rules), src_id, dst_id, args)
         ELSE IF MappingAction_match(rule.action, args) = NoResult
            THEN match_rules_past_drop(Tail(rules), src_id, dst_id, args)
         ELSE IF MappingAction_match(rule.action, args)[1] = None
            THEN match_rules_past_drop(Tail(rules), src_id, dst_id, args)
         ELSE MappingAction_match(rule.action, args)

\* FlowMapping.match: "for rule in self.mapping_enumeration"
RECURSIVE match_rules(_, _, _, _)
match_rules(rules, src_id, dst_id, args) ==
    IF rules = <<>> THEN NoResult
    ELSE LET rule == Head(rules) IN
         IF rule.src # 0 /\ rule.src # src_id
            THEN match_rules(Tail(rules), src_id, dst_id, args)
         ELSE IF rule.dst # 0 /\ rule.dst # dst_id
            THEN match_rules(Tail(rules), src_id, dst_id, args)
         ELSE IF MappingAction_match(rule.action, args) = NoResult
            THEN match_rules(Tail(rules), src_id, dst_id, args)
         ELSE IF MappingAction_match(rule.action, args)[1] = None THEN NoResult
         ELSE MappingAction_match(rule.action, args)

\* FlowMapping.match(src_addr, src_port, dst_addr, dst_port)
match(self, args) ==
    LET src_id == network(self.network_enumeration[1], args[1])
        dst_id == network(self.network_enumeration[1], args[3])
    IN  IF src_id = None \/ dst_id = None THEN NoResult
        ELSE match_rules(self.mapping_enumeration, src_id, dst_id, args)

\* A line of a NetworkEnumeration.
Network(name, cidrs) == [name |-> name, cidrs |-> cidrs]

\* The networks of tests/pcap_config.py TestFlowMapping.setUp, the last one
\* being ip_network('0.0.0.0/0').
TestNetworks ==
    << Network("net_1", <<Net24(1)>>), Network("net_2", <<Net24(2)>>),
       Network("any", <<[lo |-> 0, hi |-> 65535]>>) >>

\* The rules of TestFlowMapping.setUp.
TestRules ==
    << Rule("net_1", "net_2", AssignPorts(SOURCE, DESTINATION, {1}, FALSE)),
       Rule("net_2", "net_1", Assign(SOURCE, DESTINATION)),
       Rule("net_2", NoName,  AssignPorts(SOURCE, DESTINATION, {2}, FALSE)),
       Rule(NoName,  "net_1", AssignPorts(SOURCE, DESTINATION, {3}, FALSE)),
       Rule(NoName,  NoName,  AssignPorts(SOURCE, DESTINATION, {53}, TRUE)),
       Rule(NoName,  NoName,  AssignPorts(SOURCE, DESTINATION, {80}, FALSE)) >>

MaxRules == 2

\* The FlowMappings: the one of the test, and every list of up to MaxRules
\* of its rules, of a LowerPort rule and of a PortMatch rule.
RuleLists ==
    {TestRules} \cup
    UNION { [1..k -> Range(TestRules) \cup
                        { Rule(NoName, NoName, LowerPort(SOURCE)),
                          Rule("net_1", NoName, PortMatch({53}, DESTINATION, FALSE)) }] :
            k \in 0..MaxRules }

\* A configuration has been loaded, with the networks of the test or
\* without the one that holds every address: FlowMapping(...) is built and
\* number_networks is still to be called.
FlowInit ==
    /\ flow \in { [networks |-> NetworkEnumeration(ne), rules |-> rl,
                   mapping |-> FlowMapping(rl), numbered |-> FALSE,
                   args |-> <<>>, result |-> NoResult] :
                  ne \in {TestNetworks, SubSeq(TestNetworks, 1, 2)}, rl \in RuleLists }
    /\ pb = <<>>
    /\ agent = <<>>
    /\ LibInit

\* FLOW_MAPPING.number_networks( NETWORK_ENUMERATION )
FlowNumberNetworks ==
    /\ ~flow.numbered
    /\ flow' = [flow EXCEPT !.numbered = TRUE,
                            !.mapping = number_networks(flow.mapping, flow.networks)]
    /\ LibFrame
    /\ UNCHANGED <<pb, agent>>

\* flow_mapping.match( src_addr, src_port, dst_addr, dst_port ) for a
\* packet, the first one: match assigns no attribute, so that it returns the
\* same for a packet whatever was matched before. The addresses are of
\* net_1, of net_2 and of neither, the ports those of the rules and one of
\* none.
FlowMatch ==
    /\ flow.numbered
    /\ flow.args = <<>>
    /\ \E sa, da \in {Addr(1, 1), Addr(2, 1), Addr(3, 3)}, sp \in {53, 3047},
          dp \in {1, 2, 3, 53, 80, 3047} :
        flow' = [flow EXCEPT !.args = <<sa, sp, da, dp>>,
                             !.result = match(flow.mapping, <<sa, sp, da, dp>>)]
    /\ LibFrame
    /\ UNCHANGED <<pb, agent>>

FlowNext == FlowNumberNetworks \/ FlowMatch

SpecFlow == FlowInit /\ [][FlowNext]_vars

\* ---------------------------------------------------------------------
\* pcap_config: the changeable networks OUR_4NETS and OUR_6NETS.
\*
\* IPv6 addresses are the numbers from 65536 up: 2001:db8:12:x::y is
\* 65536 + Addr(x, y).  No range of one version holds an address of the
\* other, as "address in cidr" is False across versions.  The defaults
\* 127.0.0.0/24 and fc00::/7 are block 127 of the IPv4 numbers and block
\* 252 (0xfc) of the IPv6 numbers.
\* ---------------------------------------------------------------------
\* The module's two objects, by the name of the global that holds them.
OUR_NETS ==
    [ OUR_4NETS |-> Net24(127),
      OUR_6NETS |-> [lo |-> 65536 + 252 * 256, hi |-> 65536 + 252 * 256 + 255] ]

\* update_our_nets: the object of the argument's version takes the
\* argument's value in place (ChangeableMixin.change); our is globals().
update_our_nets(our, our_nets) ==
    IF our_nets.hi < 65536
    THEN [our EXCEPT !.OUR_4NETS = our_nets]
    ELSE [our EXCEPT !.OUR_6NETS = our_nets]

\* The value of a copy taken when the enumeration is built.
cidr_value_at_build(our, cidr) ==
    IF "ref" \in DOMAIN cidr THEN OUR_NETS[cidr.ref] ELSE cidr

\* A CIDR of an enumeration is a network of its own, or a reference to one
\* of the two objects: NetworkEnumeration.__init__ keeps an object that is
\* already a network as it is, and "address in cidr" reads its value.
cidr_value(our, cidr) ==
    IF "ref" \in DOMAIN cidr THEN our[cidr.ref] ELSE cidr

\* The longest history of calls.
MaxCalls == 3

\* The enumerations of tests/pcap_config.py within the 16 bits of the
\* model (EndsWithAllNets, EndsWithNoNets, IPv4Nets, IPv6Nets) and one
\* whose last line names the first network again.  The enumeration is
\* built once; log is the history of the calls made.
NetsInit ==
    /\ LibInit
    /\ pb = <<>>
    /\ agent = <<>>
    /\ LET six(x)  == [lo |-> 65536 + x * 256, hi |-> 65536 + x * 256 + 255]
           remote  == Network("remote_site", <<Net24(222), Net24(223)>>)
           hangar  == Network("hangar_42", <<Net24(33)>>)
           site    == Network("site_net", <<[lo |-> 32 * 256, hi |-> 47 * 256 + 255]>>)
           remote6 == Network("remote_site", <<six(222), six(223)>>)
           hangar6 == Network("hangar_42", <<six(33)>>)
       IN  flow \in
             { [our |-> OUR_NETS, networks |-> NetworkEnumeration(d), log |-> <<>>] :
                 d \in { << remote, hangar, site,
                            Network("external", <<[lo |-> 0, hi |-> 65535]>>) >>,
                         << remote, hangar, site >>,
                         << remote, hangar, Network("site_net", <<[ref |-> "OUR_4NETS"]>>) >>,
                         << remote6, hangar6, Network("site_net", <<[ref |-> "OUR_6NETS"]>>) >>,
                         << hangar, site,
                            Network("hangar_42", <<[lo |-> 0, hi |-> 65535]>>) >> } }

\* agents/pcap_agent.py, Server.__init__: update_our_nets(our_network);
\* the test calls it with the site's network.
NetsUpdateOurNets ==
    /\ Len(flow.log) < MaxCalls
    /\ \E our_nets \in { [lo |-> 32 * 256, hi |-> 47 * 256 + 255],
                         [lo |-> 65536 + 32 * 256, hi |-> 65536 + 47 * 256 + 255],
                         Net24(1) } :
           flow' = [flow EXCEPT
                        !.our = update_our_nets(flow.our, our_nets),
                        !.log = Append(flow.log,
                                       [op |-> "update_our_nets", our_nets |-> <<our_nets>>,
                                        address |-> None, result |-> None])]
    /\ LibFrame
    /\ UNCHANGED <<pb, agent>>

\* A call of NetworkEnumeration.network(address): the loops of network
\* over the CIDRs, each with the value its object has now.
NetsNetwork ==
    /\ Len(flow.log) < MaxCalls
    /\ \E address \in { Addr(33, 42), Addr(34, 42), Addr(222, 55), Addr(223, 221),
                        Addr(1, 1), 65536 + Addr(34, 42), 65536 + Addr(223, 42) } :
           LET ne  == flow.networks
               now == [ne EXCEPT !.enumeration =
                         [i \in DOMAIN ne.enumeration |->
                            [ne.enumeration[i] EXCEPT !.cidrs =
                               [k \in DOMAIN ne.enumeration[i].cidrs |->
                                  cidr_value(flow.our, ne.enumeration[i].cidrs[k])]]]]
           IN  flow' = [flow EXCEPT
                          !.log = Append(flow.log,
                                         [op |-> "network", our_nets |-> <<>>,
                                          address |-> address,
                                          result |-> network(now, address)])]
    /\ LibFrame
    /\ UNCHANGED <<pb, agent>>

NetsNext == NetsUpdateOurNets \/ NetsNetwork

SpecNets == NetsInit /\ [][NetsNext]_vars

\* ---------------------------------------------------------------------
\* pcap_config: a PortMatch on its own, as TestMappingActions calls it.
\* ---------------------------------------------------------------------
\* The action is constructed once; precedence is the constructor's argument.
PortInit ==
    /\ LibInit
    /\ pb = <<>>
    /\ agent = <<>>
    /\ flow \in { [precedence |-> precedence,
                   action |-> PortMatch(set_of_ports, precedence, drop),
                   args |-> <<>>, result |-> NoResult] :
                      set_of_ports \in {{}, {80}, {80, 443}},
                      precedence \in {SOURCE, DESTINATION},
                      drop \in BOOLEAN }

\* action.match( src_addr, src_port, dst_addr, dst_port )
PortMatchCall ==
    /\ flow.args = <<>>
    /\ \E src_addr, dst_addr \in {Addr(0, 1), Addr(0, 2)}, src_port \in {1, 80, 443},
          dst_port \in {2, 80, 443} :
           /\ src_addr # dst_addr
           /\ flow' = [flow EXCEPT
                          !.args = <<src_addr, src_port, dst_addr, dst_port>>,
                          !.result = PortMatch_match(flow.action,
                                                     <<src_addr, src_port, dst_addr, dst_port>>)]
    /\ LibFrame
    /\ UNCHANGED <<pb, agent>>

SpecPort == PortInit /\ [][PortMatchCall]_vars

\* ---------------------------------------------------------------------
\* The Dnstap agent and the DNS agent that receives its datagrams.
\*
\* A response that reaches map_fields is its rcode and, for NOERROR, the
\* last element of its resolution chain: one entry per value, TRUE where
\* ip_address accepts the value.  An rrset has one value at least.
\* ---------------------------------------------------------------------
\* The longest list of final addresses of a response, and the number of
\* frames the agent consumes.
MaxAddresses == 2
MaxResponses == 3

\* MyMapper.map_fields when a discarded response keeps the id it took.
map_fields_keeps_id(id_, packet) ==
    IF packet.rcode = "NOERROR" /\ \E i \in DOMAIN packet.addresses : ~packet.addresses[i]
    THEN [id_ |-> id_ + 1, yielded |-> <<>>]
    ELSE IF packet.rcode # "NOERROR"
    THEN [id_ |-> id_ + 1, yielded |-> <<id_ + 1>>]
    ELSE [id_     |-> id_ + Len(packet.addresses),
          yielded |-> [i \in 1..Len(packet.addresses) |-> id_ + i]]

\* MyMapper.map_fields: the FIELDS take one id; an address that ip_address
\* rejects gives the id back and ends the generator; otherwise one record
\* for a response without addresses and one per address, each after the
\* first with an id of its own.  yielded is the id of each record.
map_fields(id_, packet) ==
    IF packet.rcode = "NOERROR" /\ \E i \in DOMAIN packet.addresses : ~packet.addresses[i]
    THEN [id_ |-> (id_ + 1) - 1, yielded |-> <<>>]
    ELSE IF packet.rcode # "NOERROR"
    THEN [id_ |-> id_ + 1, yielded |-> <<id_ + 1>>]
    ELSE [id_     |-> id_ + Len(packet.addresses),
          yielded |-> [i \in 1..Len(packet.addresses) |-> id_ + i]]

\* DictOfCounters.expected(k, v) for the one peer: entry is <<>> while the
\* peer is not in the dictionary, and else holds its sequence number.
expected(entry, v) ==
    IF entry = <<>> THEN [entry |-> entry, result |-> FALSE]
    ELSE [entry |-> <<entry[1] + 1>>, result |-> entry[1] + 1 = v]

\* MyMapper.__init__ and an empty DictOfCounters; channel holds the
\* datagrams on their way, none of which is lost.
AgentInit ==
    /\ LibInit
    /\ pb = <<>>
    /\ flow = <<>>
    /\ agent = [id_ |-> 0, consumed |-> <<>>, channel |-> <<>>, last_id |-> <<>>,
                 checked |-> <<>>]

\* DnsTap.consume(frame): a message the filter refuses takes no id; else
\* every record of map_fields is written.
AgentConsume ==
    /\ Len(agent.consumed) < MaxResponses
    /\ \E pass \in BOOLEAN, n \in 0..MaxAddresses :
       \E addresses \in [1..n -> BOOLEAN] :
           LET packet == [rcode |-> IF n = 0 THEN "NXDOMAIN" ELSE "NOERROR",
                          addresses |-> addresses]
               mapped == IF pass THEN map_fields(agent.id_, packet)
                         ELSE [id_ |-> agent.id_, yielded |-> <<>>]
           IN  /\ pass \/ n = 0
               /\ agent' = [agent EXCEPT
                               !.id_ = mapped.id_,
                               !.consumed = Append(@, [pass |-> pass, packet |-> packet,
                                                       yielded |-> mapped.yielded]),
                               !.channel = @ \o mapped.yielded]
    /\ LibFrame
    /\ UNCHANGED <<pb, flow>>

\* Consumer.process_message of the DNS agent on the next datagram: the id
\* is checked against the peer's last one, and put in its place when it is
\* not the one expected.
DnsAgentProcessMessage ==
    /\ agent.channel # <<>>
    /\ LET id    == Head(agent.channel)
           check == expected(agent.last_id, id)
       IN  agent' = [agent EXCEPT
                        !.channel = Tail(@),
                        !.last_id = IF check.result THEN check.entry ELSE <<id>>,
                        !.checked = Append(@, [id |-> id, known |-> agent.last_id # <<>>,
                                               expected |-> check.result])]
    /\ LibFrame
    /\ UNCHANGED <<pb, flow>>

AgentNext == AgentConsume \/ DnsAgentProcessMessage

SpecAgent == AgentInit /\ [][AgentNext]_vars

\* ---------------------------------------------------------------------
\* examples/dnstap2json.py: the writer coroutine of UniversalWriter.
\*
\* Time is time() in whole seconds from 1 on.  write_failure is the local
\* variable of writer(), self_write_failure the attribute of the object.
\* ---------------------------------------------------------------------
WRITE_FAILURE_WINDOW == 10

\* The last second of the clock, and the number of messages written.
MaxTime == 12
MaxWrites == 3

\* UniversalWriter.failure_window_exceeded(timestamp)
failure_window_exceeded(timestamp, time) ==
    timestamp # None /\ (time - timestamp) > WRITE_FAILURE_WINDOW

\* One turn of the "while True" of writer(): a message is taken from the
\* queue and sock_sendall returns (sent) or raises an Exception.
writer(w, sent_ok, time) ==
    IF sent_ok
    THEN [w EXCEPT !.write_failure =
                     IF failure_window_exceeded(w.write_failure, time) THEN None ELSE @]
    ELSE [w EXCEPT
            !.critical = IF w.write_failure = None THEN @ + 1 ELSE @,
            !.self_write_failure = IF w.write_failure = None THEN time ELSE @,
            !.exited = /\ failure_window_exceeded(w.write_failure, time)
                       /\ w.EXIT_ON_PERSISTENT_FAILURE]

\* UniversalWriter.__init__ creates the writer task, which starts with
\* write_failure = None; the Dnstap agent takes EXIT_ON_PERSISTENT_FAILURE
\* from its configuration.
WriterInit ==
    /\ LibInit
    /\ pb = <<>>
    /\ flow = <<>>
    /\ \E exit_on \in BOOLEAN :
           agent = [write_failure |-> None, self_write_failure |-> None, critical |-> 0,
                    exited |-> FALSE, EXIT_ON_PERSISTENT_FAILURE |-> exit_on,
                    time |-> 1, writes |-> <<>>]

\* A second passes.
WriterTick ==
    /\ ~agent.exited
    /\ agent.time < MaxTime
    /\ agent' = [agent EXCEPT !.time = @ + 1]
    /\ LibFrame
    /\ UNCHANGED <<pb, flow>>

\* The writer takes the next message and writes it, or fails to.
WriterWrite ==
    /\ ~agent.exited
    /\ Len(agent.writes) < MaxWrites
    /\ \E sent_ok \in BOOLEAN :
           LET w == writer(agent, sent_ok, agent.time)
           IN  agent' = [w EXCEPT !.writes =
                            Append(@, [time |-> agent.time, sent |-> sent_ok,
                                       critical |-> w.critical > agent.critical])]
    /\ LibFrame
    /\ UNCHANGED <<pb, flow>>

WriterNext == WriterTick \/ WriterWrite

SpecWriter == WriterInit /\ [][WriterNext]_vars

\* The frames of a buffer that holds the whole stream: frame_ready called
\* until it returns False.
RECURSIVE WholeFrames(_, _)
WholeFrames(p, fed) ==
    LET r == frame_ready(p) IN
    IF r.ret THEN <<FrameRecord(r.p, fed)>> \o WholeFrames(r.p, fed) ELSE <<>>

FedWhole(s) == WholeFrames(append(DataProcessor(NoType), s), Len(s))

IsPrefix(s, t) == Len(s) <= Len(t) /\ s = SubSeq(t, 1, Len(s))

\* C1: reassembly is split-invariant. However the stream is cut into chunks
\* (appends of any sizes, frame_ready called at any time in between), the
\* frames extracted so far are the first frames that the same stream yields
\* when it is appended in one chunk, and once the whole stream is in and
\* frame_ready reports nothing more, they are all of them.
C1_SplitInvariant ==
    pc = "reasm" =>
        /\ IsPrefix(frames, FedWhole(stream))
        /\ (pos = Len(stream) /\ ready = "False") => frames = FedWhole(stream)

\* A stream of three frames has been fed with cuts inside a length prefix and
\* all three frames are out.
C1_Witness ==
    /\ pc = "reasm"
    /\ pos = Len(stream)
    /\ ready = "False"
    /\ Len(frames) = 3
    /\ frames[1].control /\ ~frames[2].control


\* Where the i-th extracted frame starts in the stream: where the one before
\* it ended.
FrameStart(i) == IF i = 1 THEN 0 ELSE frames[i - 1].end

\* C9: every extracted frame is classified by its outer 4-byte big-endian
\* length L1. If L1 is 0 the frame is a Control frame and its payload is the
\* L2 bytes after the 4-byte big-endian control length L2; if L1 > 0 it is a
\* Data frame and its payload is the L1 bytes after the outer length.
C9_Classified ==
    pc = "reasm" =>
        \A i \in 1..Len(frames) :
            LET s  == FrameStart(i)
                L1 == from_bytes(Slice(s, s + 4))
                L2 == from_bytes(Slice(s + 4, s + 8))
            IN  IF L1 = 0
                THEN frames[i].control /\ frames[i].payload = Slice(s + 8, s + 8 + L2)
                ELSE ~frames[i].control /\ frames[i].payload = Slice(s + 4, s + 4 + L1)

\* A Data frame has been extracted after a Control frame, and a Control frame
\* after it, the stream having been cut inside the frames.
C9_Witness ==
    /\ pc = "reasm"
    /\ Len(frames) = 3
    /\ frames[1].control /\ ~frames[2].control /\ frames[3].control
    /\ frames[2].payload = <<66, 67>>

\* The bytes appended so far that belong to no extracted frame.
Avail == Slice(IF frames = <<>> THEN 0 ELSE frames[Len(frames)].end, pos)

\* What the processor holds of them: the lengths it has decoded and the buffer.
Unparsed(p) ==
    (IF p.data_length # None THEN to_bytes(p.data_length) ELSE <<>>)
    \o (IF p.data_length = 0 /\ p.control_length # None
        THEN to_bytes(p.control_length) ELSE <<>>)
    \o p.buffer

\* b holds less than the length prefixes of its first frame: fewer than 4
\* bytes, or a zero outer length and fewer than 4 bytes after it.
HeaderShort(b) == Len(b) < 4 \/ (from_bytes(Take(b, 4)) = 0 /\ Len(b) < 8)

\* b starts with a complete frame.
CompleteFrame(b) ==
    /\ ~HeaderShort(b)
    /\ LET L1 == from_bytes(Take(b, 4))
           L2 == from_bytes(SubSeq(b, 5, 8))
       IN  IF L1 = 0 THEN Len(b) >= 8 + L2 ELSE Len(b) >= 4 + L1

\* C10: partial header tolerance. A frame_ready call made while fewer than the
\* 4 bytes of the next length prefix (outer length, or control length after a
\* zero outer length) have arrived reports that no frame is ready and loses no
\* byte: the decoded lengths and the buffer still make up the bytes received.
\* A frame_ready call made once the prefix and the declared payload have all
\* arrived extracts the frame.
C10_PartialHeader ==
    [][ (pc = "reasm" /\ ready' # "none" /\ pos' = pos) =>
          /\ HeaderShort(Avail) =>
                (ready' = "False" /\ frames' = frames /\ Unparsed(processor') = Avail)
          /\ CompleteFrame(Avail) =>
                (ready' = "True" /\ Len(frames') = Len(frames) + 1)
      ]_vars

\* frame_ready has said no with 3 of the 4 bytes of a control length in the
\* buffer, after a frame had been extracted.
C10_Witness ==
    /\ pc = "reasm"
    /\ ready = "False"
    /\ Len(frames) >= 1
    /\ processor.data_length = 0
    /\ processor.control_length = None
    /\ Len(processor.buffer) = 3
    /\ Len(Avail) = 7

\* The i-th extracted frame's length on the stream, from its length prefixes.
FrameLength(i) ==
    LET s  == FrameStart(i)
        L1 == from_bytes(Slice(s, s + 4))
    IN  IF L1 = 0 THEN 8 + from_bytes(Slice(s + 4, s + 8)) ELSE 4 + L1

\* C11: whenever frame_ready extracts a frame, exactly the bytes of that frame
\* (its length prefixes and its payload) have been removed from the front of
\* what was received: the frame ends where its prefixes say, the buffer holds
\* every byte received after it, in order, and data_length and control_length
\* are both None again.
C11_ExtractEffect ==
    (pc = "reasm" /\ ready = "True") =>
        LET i == Len(frames) IN
        /\ frames[i].end = FrameStart(i) + FrameLength(i)
        /\ processor.buffer = Slice(frames[i].end, pos)
        /\ processor.data_length = None
        /\ processor.control_length = None

\* A Control frame has been extracted from a buffer that also held the start
\* of the frame after it.
C11_Witness ==
    /\ pc = "reasm"
    /\ ready = "True"
    /\ Len(frames) = 2
    /\ frames[2].control
    /\ Len(processor.buffer) = 3
    /\ pos < Len(stream)

\* The length on the stream of the frame that the unextracted bytes begin,
\* known when the stream holds all its length prefixes.
NextFrameLength ==
    LET s  == IF frames = <<>> THEN 0 ELSE frames[Len(frames)].end
        L1 == from_bytes(Slice(s, s + 4))
    IN  IF L1 = 0 THEN 8 + from_bytes(Slice(s + 4, s + 8)) ELSE 4 + L1

\* The stream holds a frame after the frames extracted.
MoreToCome == (IF frames = <<>> THEN 0 ELSE frames[Len(frames)].end) < Len(stream)

\* C12: after frame_ready has reported that no frame is ready, read_size() is
\* the minimum number of additional bytes required before another frame can
\* be extracted, so a read of that size never takes bytes belonging to a
\* following frame: it is at most what the frame being received still lacks.
C12_ReadSizeMinimal ==
    (pc = "reasm" /\ ready = "False" /\ MoreToCome) =>
        read_size(processor) <= NextFrameLength - Len(Avail)

\* C12 as amended: after frame_ready has reported that no frame is ready,
\* read_size() is at least 1. Once the outer length is known it is exactly the
\* number of bytes still missing (of the control length while that is unknown,
\* of the payload afterwards), so a read of that size takes no byte of a
\* following frame. While the outer length is unknown it is 8 minus the bytes
\* buffered, the two length prefixes of a Control frame, whatever the frame:
\* for a Data frame of fewer than 4 bytes that is up to 3 bytes of the
\* following frame.
C12_ReadSize ==
    (pc = "reasm" /\ ready = "False") =>
        LET n == read_size(processor) IN
        /\ n >= 1
        /\ processor.data_length = None =>
              /\ Len(Avail) < 4
              /\ n = 8 - Len(Avail)
              /\ MoreToCome => n <= NextFrameLength - Len(Avail) + 3
        /\ (processor.data_length = 0 /\ processor.control_length = None) =>
              n = 8 - Len(Avail)
        /\ (processor.data_length # None /\ ~(processor.data_length = 0 /\ processor.control_length = None)) =>
              n = NextFrameLength - Len(Avail)

\* frame_ready has said no with the lengths of a Control frame and a part of
\* its payload in, and read_size asks for the rest of the payload.
C12_Witness ==
    /\ pc = "reasm"
    /\ ready = "False"
    /\ processor.data_length = 0
    /\ processor.control_length = 13
    /\ Len(processor.buffer) = 5
    /\ read_size(processor) = 8
    /\ Len(frames) = 1

----------------------------------------------------------------------------
(* The connection: handshake and delivery.                                 *)

IsConsume(c)  == c.op = "consume"
IsAccepted(c) == c.op = "accepted"
IsFinished(c) == c.op = "finished"

\* The payload of a READY / START control frame that carries content type t.
ControlPayload(type, t) == to_bytes(type) \o ContentTypeField(t)

\* The i-th extracted frame is a control frame of this type carrying t.
IsControl(i, type, t) ==
    /\ Len(frames) >= i
    /\ frames[i].control
    /\ frames[i].payload = ControlPayload(type, t)

\* process_frame has returned (or raised) for the i-th extracted frame.
Processed(i) == Len(frames) > i \/ (Len(frames) = i /\ pc # "process")

\* C2: consume is never invoked unless a START was processed earlier on the
\* connection and Consumer.accepted returned true for it: every consume call
\* comes after an accepted call that returned True.
C2_OnlyWhileStreaming ==
    \A i \in 1..Len(calls) :
        IsConsume(calls[i]) =>
            \E j \in 1..(i - 1) : IsAccepted(calls[j]) /\ calls[j].ret

\* C3: handshake happy path. On a connection of a server whose data_type is
\* not configured, or is "X": once READY("X") is processed exactly one
\* ACCEPT("X") has been written and accepted has not been called; once
\* START("X") is processed after it, still that one ACCEPT("X") has been
\* written, accepted has been called exactly once, with "X", for the START,
\* no error is raised and the connection is closed by nothing but the end of
\* the stream; if accepted returned True, a Data frame that follows is given
\* to consume (called, or its task created).
C3_HappyPath ==
    (server_data_type \in {NoType, Some(TypeX)} /\ IsControl(1, FSTRM_CONTROL_READY, TypeX)) =>
        /\ (Len(frames) = 1 /\ Processed(1)) =>
              /\ sent = <<ACCEPT(TypeX)>>
              /\ SelectSeq(calls, IsAccepted) = <<>>
              /\ pc # "error"
              /\ pc = "closed" => pos = Len(stream)
        /\ (IsControl(2, FSTRM_CONTROL_START, TypeX) /\ Processed(2)) =>
              LET acc == SelectSeq(calls, IsAccepted) IN
              /\ Len(frames) = 2 =>
                    /\ sent = <<ACCEPT(TypeX)>>
                    /\ Len(acc) = 1
                    /\ pc # "error"
                    /\ (acc[1].ret /\ pc = "closed") => pos = Len(stream)
              /\ acc[1].arg = TypeX /\ acc[1].idx = 2
              /\ (acc[1].ret /\ Len(frames) >= 3 /\ ~frames[3].control /\ Processed(3)) =>
                    \/ \E i \in 1..Len(calls) :
                          /\ IsConsume(calls[i])
                          /\ calls[i].idx = 3
                          /\ calls[i].arg = frames[3].payload
                    \/ \E i \in 1..Len(readyq) :
                          readyq[i] = [id |-> 3, frame |-> frames[3].payload]

\* READY("X"), START("X") and a Data frame have been processed by the asyncio
\* server and consume has been called with the Data frame.
C3_Witness ==
    /\ loop
    /\ server_data_type = NoType
    /\ IsControl(1, FSTRM_CONTROL_READY, TypeX)
    /\ IsControl(2, FSTRM_CONTROL_START, TypeX)
    /\ Len(frames) = 3
    /\ sent = <<ACCEPT(TypeX)>>
    /\ \E i \in 1..Len(calls) : IsConsume(calls[i]) /\ calls[i].arg = <<65>>

\* The frame that process_frame is about to process is a READY or a START
\* whose content type differs from the one recorded for the connection.
CarriesOtherType(p) ==
    /\ p.running
    /\ p.is_control_frame
    /\ p.data_type # NoType
    /\ \E t \in {TypeX, TypeY} :
        /\ p.data_type # Some(t)
        /\ p.frame \in {ControlPayload(FSTRM_CONTROL_READY, t),
                        ControlPayload(FSTRM_CONTROL_START, t)}

C5_ReadyStartStop ==
    (stream = READY_X \o START_X \o STOP /\ server_data_type \in {NoType, Some(TypeX)}) =>
        /\ pc # "error"
        /\ SelectSeq(calls, IsConsume) = <<>>
        /\ pc = "closed" =>
              \E ret \in BOOLEAN :
                  calls = <<Call("accepted", TypeX, ret, 2), Call("finished", <<>>, TRUE, 0)>>
        /\ pc # "closed" =>
              /\ SelectSeq(calls, IsFinished) = <<>>
              /\ Len(SelectSeq(calls, IsAccepted)) <= 1
              /\ ENABLED Next

\* process_data has closed the connection after READY("X"), START("X"), STOP.
C5_Witness ==
    /\ stream = READY_X \o START_X \o STOP
    /\ loop
    /\ pc = "closed"
    /\ Len(frames) = 3
    /\ Len(calls) = 2
    /\ calls[1].ret

\* consume has returned false for a Data frame of the connection.
ConsumeSaidNo == \E i \in 1..Len(calls) : IsConsume(calls[i]) /\ ~calls[i].ret

\* C6: once consume has returned false for a Data frame, consume is not
\* invoked for any later Data frame of the connection (no further consume call
\* is made at all), and no error is raised from then on.
C6_FalseStopsConsume ==
    [][ ConsumeSaidNo =>
          /\ \A i \in (Len(calls) + 1)..Len(calls') : ~IsConsume(calls'[i])
          /\ pc # "error" => pc' # "error"
      ]_vars

\* C7: consume is invoked for the Data frames of a connection in the order of
\* their arrival, with listen and with process_data: every consume call is
\* given the payload of an extracted Data frame, and of two consume calls the
\* later is for the frame that lies later in the stream.
C7_ReceiptOrder ==
    LET cc == SelectSeq(calls, IsConsume) IN
    \A i \in 1..Len(cc) :
        /\ cc[i].idx \in 1..Len(frames)
        /\ ~frames[cc[i].idx].control
        /\ cc[i].arg = frames[cc[i].idx].payload
        /\ i > 1 => frames[cc[i - 1].idx].end < frames[cc[i].idx].end

\* Two tasks of the asyncio server, created before either ran, have called
\* consume with two different Data frames.
C7_Witness ==
    LET cc == SelectSeq(calls, IsConsume) IN
    /\ loop
    /\ Len(cc) = 2
    /\ cc[1].arg = <<66, 67>>
    /\ cc[2].arg = <<65>>
    /\ cc[1].ret
    /\ \E i \in 1..Len(calls) : IsFinished(calls[i]) /\ i < Len(calls) - 1

\* The frame that process_frame is about to process is a STOP control frame.
StopFrame(p) ==
    /\ p.running
    /\ p.is_control_frame
    /\ Take(p.frame, 4) = to_bytes(FSTRM_CONTROL_STOP)

\* The last frame extracted is a STOP control frame.
StoppedLast ==
    /\ frames # <<>>
    /\ frames[Len(frames)].control
    /\ Take(frames[Len(frames)].payload, 4) = to_bytes(FSTRM_CONTROL_STOP)

\* C8: a STOP control frame is valid in any state. Whenever process_frame
\* processes one, whatever was processed before, no error is raised, the
\* connection is closed and finished is called with exactly the bytes received
\* after the STOP frame. Once a STOP has closed the connection no further
\* frame is extracted, nothing is read or written, and the only callbacks
\* still made are consume calls of tasks created for Data frames received
\* before the STOP.
C8_StopAnyState ==
    [][ /\ (pc = "process" /\ StopFrame(processor)) =>
              /\ pc' = "closed"
              /\ err' = ""
              /\ sent' = sent
              /\ calls' = Append(calls, Call("finished", Avail, TRUE, 0))
        /\ (pc = "closed" /\ StoppedLast) =>
              /\ pc' = "closed"
              /\ err' = ""
              /\ frames' = frames
              /\ pos' = pos
              /\ sent' = sent
              /\ Len(calls') >= Len(calls)
              /\ \A i \in (Len(calls) + 1)..Len(calls') :
                    IsConsume(calls'[i]) /\ calls'[i].idx < Len(frames)
      ]_vars

\* A STOP has closed a connection that was streaming: READY, START, STOP.
C8_Witness ==
    /\ pc = "closed"
    /\ IsControl(1, FSTRM_CONTROL_READY, TypeX)
    /\ IsControl(2, FSTRM_CONTROL_START, TypeX)
    /\ Len(frames) = 3
    /\ frames[3] = [control |-> TRUE, payload |-> to_bytes(FSTRM_CONTROL_STOP),
                    end |-> Len(stream)]
    /\ calls[Len(calls)] = Call("finished", <<>>, TRUE, 0)
    /\ calls[1].ret

\* The control type of the i-th extracted frame, a Control frame.
ControlType(i) == from_bytes(Take(frames[i].payload, 4))

\* The i-th extracted frame is a Control frame that the handshake does not
\* expect where it stands: a START with no READY before it, a READY or START
\* after a START that was accepted, or a type other than READY, START, STOP.
Unexpected(i) ==
    /\ frames[i].control
    /\ \/ ControlType(i) \notin {FSTRM_CONTROL_READY, FSTRM_CONTROL_START,
                                 FSTRM_CONTROL_STOP}
       \/ /\ ControlType(i) = FSTRM_CONTROL_START
          /\ ~\E j \in 1..(i - 1) :
                frames[j].control /\ ControlType(j) = FSTRM_CONTROL_READY
       \/ /\ ControlType(i) \in {FSTRM_CONTROL_READY, FSTRM_CONTROL_START}
          /\ \E k \in 1..Len(calls) :
                IsAccepted(calls[k]) /\ calls[k].ret /\ calls[k].idx < i

\* C13: a Control frame that does not match the transition expected in the
\* connection's handshake state (START before any READY, READY or START while
\* streaming, a control type other than READY/START/STOP) is rejected with
\* BadControlTypeError and is no handshake step: once it is processed the
\* connection is in that error, it is the last frame extracted, and accepted
\* was not called for it.
C13_UnexpectedRejected ==
    \A i \in 1..Len(frames) :
        (Unexpected(i) /\ Processed(i)) =>
            /\ i = Len(frames)
            /\ pc = "error"
            /\ err = "BadControlTypeError"
            /\ \A k \in 1..Len(calls) : IsAccepted(calls[k]) => calls[k].idx # i

\* process_frame is about to handle a START whose Content-Type field passes
\* content_type_payload.
StartToProcess ==
    /\ pc = "process"
    /\ processor.running
    /\ processor.is_control_frame
    /\ from_bytes(Take(processor.frame, 4)) = FSTRM_CONTROL_START
    /\ content_type_payload(processor, Drop(processor.frame, 4)).err = ""

\* accepted has returned False on the connection.
AcceptedSaidNo == \E k \in 1..Len(calls) : IsAccepted(calls[k]) /\ ~calls[k].ret

\* C16: processing a START whose content type passes the check invokes
\* Consumer.accepted once, with the connection's content type. If accepted
\* returns true the connection goes on (the next frame is looked for, the
\* processor still runs, nothing else is called). If it returns false the
\* connection ends in that step, with finished as the last callback of the
\* loop; from then on no frame is extracted, and the only callbacks still
\* made are consume calls of tasks created for frames before the START.
C16_StartAccepted ==
    [][ /\ StartToProcess =>
              LET n == Len(calls) IN
              /\ Len(calls') > n
              /\ calls'[n + 1] = Call("accepted", processor'.data_type[1],
                                      calls'[n + 1].ret, Len(frames))
              /\ processor'.data_type # NoType
              /\ processor.frame = ControlPayload(FSTRM_CONTROL_START,
                                                  processor'.data_type[1])
              /\ calls'[n + 1].ret =>
                    /\ Len(calls') = n + 1
                    /\ pc' = "frame_ready"
                    /\ processor'.running
              /\ ~calls'[n + 1].ret =>
                    /\ Len(calls') = n + 2
                    /\ IsFinished(calls'[n + 2])
                    /\ pc' = "closed"
        /\ AcceptedSaidNo =>
              /\ pc = "closed"
              /\ pc' = "closed"
              /\ frames' = frames
              /\ pos' = pos
              /\ \A i \in (Len(calls) + 1)..Len(calls') :
                    IsConsume(calls'[i]) /\ calls'[i].idx < Len(frames)
      ]_vars

\* accepted has returned False for a START that followed a READY, the
\* connection is closed and a Data frame of the stream was never read.
C16_Witness ==
    /\ pc = "closed"
    /\ AcceptedSaidNo
    /\ IsControl(1, FSTRM_CONTROL_READY, TypeX)
    /\ IsControl(2, FSTRM_CONTROL_START, TypeX)
    /\ Len(frames) = 2
    /\ Len(stream) = Len(READY_X) + Len(START_X) + Len(DATA_B)
    /\ \A k \in 1..Len(calls) : ~IsConsume(calls[k])

\* C18: once the connection's DataProcessor has a data_type (configured at
\* creation or recorded from the first READY or START), no step changes it.
C18_TypeImmutable ==
    [][ (pc # "accept" /\ processor.data_type # NoType) =>
            processor'.data_type = processor.data_type ]_vars

\* On a server with no configured type, START("X") recorded the type, a
\* READY("X") followed, and a START("Y") has been processed: the type is
\* still "X".
C18_Witness ==
    /\ server_data_type = NoType
    /\ IsControl(1, FSTRM_CONTROL_START, TypeX)
    /\ IsControl(2, FSTRM_CONTROL_READY, TypeX)
    /\ IsControl(3, FSTRM_CONTROL_START, TypeY)
    /\ Processed(3)
    /\ processor.data_type = Some(TypeX)

\* The exceptions of the framing and of the handshake.
HandshakeErrors ==
    {"BadControlTypeError", "ContentTypeMismatchError", "FieldTypeMismatchError",
     "FieldSizeError", "UnicodeDecodeError"}

\* C14: a framing or handshake error is fatal to the offending connection
\* only: the connection it was raised on is closed, and the server keeps
\* accepting and serving other connections, with listen and with process_data.
C14_ErrorFatalToConnectionOnly ==
    \A c \in ConnIds :
        (conns[c].pc = "error" /\ conns[c].err \in HandshakeErrors) =>
            /\ ~conns[c].open
            /\ listening

\* C15: a consume that raises on a Data frame drops that frame only: the
\* connection is not ended by it and the server goes on, with listen and with
\* process_data.
C15_DecodeErrorFrameFatal ==
    \A c \in ConnIds :
        (\E i \in 1..Len(conns[c].calls) : conns[c].calls[i].raised) =>
            /\ conns[c].pc # "error"
            /\ listening

\* s is one ACCEPT control frame for content type t: outer length 0, control
\* length 12 + len(t), control type 1, one Content-Type field (id 1, length
\* len(t)) holding t; frame_ready and content_type_payload read it back as
\* exactly one Control frame carrying t, with nothing left in the buffer.
WellFormedAccept(s, t) ==
    LET r == frame_ready(append(DataProcessor(NoType), s))
        c == content_type_payload(DataProcessor(NoType), Drop(r.p.frame, 4))
    IN  /\ s = <<0, 0, 0, 0,  0, 0, 0, 12 + Len(t),  0, 0, 0, 1,  0, 0, 0, 1,
                 0, 0, 0, Len(t)>> \o t
        /\ r.ret
        /\ r.p.is_control_frame
        /\ r.p.buffer = <<>>
        /\ from_bytes(Take(r.p.frame, 4)) = FSTRM_CONTROL_ACCEPT
        /\ c.err = ""
        /\ c.p.data_type = Some(t)
        /\ ~frame_ready(r.p).ret

\* process_frame is about to handle a Control frame of this type on cn.
ControlToProcess(cn, type) ==
    /\ cn.pc = "process"
    /\ cn.processor.running
    /\ cn.processor.is_control_frame
    /\ from_bytes(Take(cn.processor.frame, 4)) = type

\* C17: when a READY is processed without error, what is written to the peer
\* in that step is one well-formed ACCEPT control frame for the connection's
\* content type, which is the type the READY carries; no other step writes
\* to the peer.
C17_AcceptWellFormed ==
    [][ \A c \in ConnIds :
          LET cn  == conns[c]
              cn2 == conns'[c]
          IN  IF ControlToProcess(cn, FSTRM_CONTROL_READY) /\ cn2.pc # "error"
              THEN /\ Len(cn2.sent) = Len(cn.sent) + 1
                   /\ SubSeq(cn2.sent, 1, Len(cn.sent)) = cn.sent
                   /\ cn2.processor.data_type # NoType
                   /\ WellFormedAccept(cn2.sent[Len(cn2.sent)],
                                       cn2.processor.data_type[1])
                   /\ cn.processor.frame =
                        ControlPayload(FSTRM_CONTROL_READY, cn2.processor.data_type[1])
              ELSE cn2.sent = cn.sent
      ]_vars

\* One connection has been answered ACCEPT("X") and another ACCEPT("YZ").
C17_Witness ==
    \E c, d \in ConnIds :
        /\ conns[c].sent = <<ACCEPT(TypeX)>>
        /\ conns[d].sent = <<ACCEPT(TypeL)>>

\* C19: on a server with no configured data_type the negotiated content type
\* is agreed by all connections: once a connection has negotiated X, a READY
\* or START carrying another type on another connection is not recorded, so
\* no two connections have different recorded types.
C19_TypeAgreedByAll ==
    server_data_type = NoType =>
        \A c, d \in ConnIds :
            (conns[c].processor.data_type # NoType /\ conns[d].processor.data_type # NoType)
                => conns[c].processor.data_type = conns[d].processor.data_type

\* The Content-Type field of the Control frame that cn is about to process
\* is well formed and carries t.
Carries(cn, t) == Drop(cn.processor.frame, 4) = ContentTypeField(t)

\* C19 as amended: the content type is negotiated per connection. Server.
\* data_type never changes; every connection's DataProcessor starts with it;
\* a READY or START carrying t raises ContentTypeMismatchError exactly when
\* the connection's own recorded type is another one, and is recorded for
\* the connection when it has none, whatever the other connections recorded.
C19_TypePerConnection ==
    [][ /\ server_data_type' = server_data_type
        /\ \A c \in ConnIds :
              LET cn  == conns[c]
                  cn2 == conns'[c]
              IN  /\ (cn.pc = "none" /\ cn2.pc # "none") =>
                        cn2.processor.data_type = server_data_type
                  /\ \A t \in {TypeX, TypeL} :
                        ( /\ \/ ControlToProcess(cn, FSTRM_CONTROL_READY)
                             \/ ControlToProcess(cn, FSTRM_CONTROL_START)
                          /\ Carries(cn, t) ) =>
                            IF cn.processor.data_type \in {NoType, Some(t)}
                            THEN /\ cn2.pc # "error"
                                 /\ cn2.processor.data_type = Some(t)
                            ELSE /\ cn2.pc = "error"
                                 /\ cn2.err = "ContentTypeMismatchError"
                                 /\ cn2.processor.data_type = cn.processor.data_type
      ]_vars

\* On a server with no configured type one connection has negotiated "X" and
\* another "YZ", neither with an error.
C19_Witness ==
    /\ server_data_type = NoType
    /\ \E c, d \in ConnIds :
        /\ conns[c].processor.data_type = Some(TypeX)
        /\ conns[d].processor.data_type = Some(TypeL)
        /\ conns[c].pc # "error"
        /\ conns[d].pc # "error"
        /\ conns[d].sent = <<ACCEPT(TypeL)>>

\* C20: connection state lives for exactly one connection: a connection not
\* yet accepted has no processor in Server.processors, and when a connection
\* has ended, for whatever reason (end of stream, STOP, false consumer signal,
\* handshake error, cancellation), its socket is closed and its processor is
\* not in Server.processors.
C20_StateEndsWithConnection ==
    \A c \in ConnIds :
        /\ conns[c].pc = "none" => c \notin processors
        /\ conns[c].pc \in {"closed", "error"} =>
              /\ ~conns[c].open
              /\ c \notin processors

\* C21: a frame whose declared length exceeds a maximum frame size is
\* rejected as soon as its length prefix has been read: the processor never
\* stands with a declared length of HugeLength pending, asking for the rest
\* of such a payload and keeping what has arrived of it in its buffer.
C21_FrameSizeCapped ==
    ~ /\ pc = "reasm"
      /\ ready = "False"
      /\ HugeLength \in {processor.data_length, processor.control_length}
      /\ processor.buffer # <<>>
      /\ read_size(processor) = HugeLength - Len(processor.buffer)

\* The tasks that have been scheduled for the connection and have not run.
InFlight == Len(readyq)

\* C22: the consume tasks scheduled for a connection and not yet completed
\* never exceed a fixed bound, and while the bound is reached the connection
\* reads no more from its socket. For the bound of one task less than the
\* frames a peer sends: there are never more tasks in flight, and with that
\* many in flight process_data is not reading.
C22_InFlightCapped ==
    /\ InFlight <= MaxFrames - 1
    /\ InFlight = MaxFrames - 1 => pc \notin {"recv", "read_wait"}

----------------------------------------------------------------------------
(* The protobuf decoder.                                                   *)

\* self.fields.get(name), None taken as no value.
FieldValues(pkt, name) ==
    { pkt.fields[i].value : i \in { j \in 1..Len(pkt.fields) : pkt.fields[j].name = name } }

\* The payload of pb without its fields of id 99, decoded.
WithoutUnknown ==
    do_dissect(Protobuf("Dnstap", pb.log_wire_type),
               Flatten(SelectSeq(pb.items, LAMBDA f : f # WellFormed.unknown)), InitialDescriptors)

\* A Dnstap made of well-formed fields, one of them of id 99, has been
\* decoded or refused.
UnknownFieldDecoded ==
    /\ pb.status \in {"done", "error"}
    /\ Range(pb.items) \subseteq Range(WellFormed)
    /\ WellFormed.unknown \in Range(pb.items)

\* C23: a message with a field of id 99 and wire type 2 next to fields of the
\* schema decodes without error, every field of the schema has the value it
\* has when the field of id 99 is left out, and the value of the field of
\* id 99 is kept and found under the numeric id 99 in the Protobuf's index
\* of fields by id.
C23_UnknownRetrievableById ==
    UnknownFieldDecoded =>
        /\ pb.status = "done"
        /\ \A n \in fields_by_name(pb.pkt) :
                FieldValues(pb.pkt, n) = FieldValues(WithoutUnknown.pkt, n)
        /\ \E i \in 1..Len(pb.pkt.fields_seen) :
                /\ pb.pkt.fields_seen[i].pb_id = 99
                /\ FieldValues(pb.pkt, pb.pkt.fields_seen[i].pb_name) = {BytesVal(<<7>>)}
        /\ IntKey(99) \in fields_by_id(pb.pkt)

\* C24: the encoding of a value v, followed by any bytes, decodes to v and
\* leaves exactly the bytes that follow: get_varint on the canonical varint
\* of an unsigned v, svi2si on the varint whose low bit is the sign of a
\* signed v, and the fixed32 field on the 4 little-endian bytes of v.
C24_RoundTrip ==
    (pb.kind \in {"varint", "signed", "fixed32"} /\ pb.out # <<>>) =>
        /\ pb.out[1].err = ""
        /\ pb.out[1].v = pb.v
        /\ pb.out[1].s = pb.trailer

\* A varint of three groups has been decoded in front of bytes that carry
\* a continuation bit, a negative value and a fixed32 above 2^24 likewise.
C24_Witness ==
    /\ pb.out # <<>>
    /\ pb.trailer = <<129, 1>>
    /\ \/ pb.kind = "varint" /\ pb.v = 16384
       \/ pb.kind = "signed" /\ pb.v = -MaxValue
       \/ pb.kind = "fixed32" /\ pb.v = 268435456

\* A buffer that holds no varint: it ends, or is empty, before a byte
\* without the continuation bit, or the varint has more than 10 groups.
Malformed(b) ==
    \/ \A i \in 1..Len(b) : b[i] >= 128
    \/ varint_bytes(b) > 10

\* C25: get_varint on a buffer that runs out while the last byte read has
\* the continuation bit set (the empty buffer included), or on a varint of
\* more than 10 groups, fails with an error and returns no value.
C25_MalformedVarintRejected ==
    (pb.kind = "raw" /\ pb.out # <<>> /\ Malformed(pb.buffer)) => pb.out[1].err # ""

\* The place in pb.items of the first field whose wire type is not the one
\* of its descriptor, when the fields before it are well-formed; 0 if there
\* is none.
FirstMismatch ==
    LET ks == { k \in 1..Len(pb.items) :
                    /\ pb.items[k] \in Range(Mismatched)
                    /\ \A j \in 1..(k - 1) : pb.items[j] \in Range(WellFormed) }
    IN  IF ks = {} THEN 0 ELSE CHOOSE k \in ks : TRUE

\* C26: a field whose wire type is not the one its descriptor requires (0
\* for varint and enum fields, 5 for fixed32, 2 for bytes, IP address and
\* embedded fields) makes the decode of the frame fail with
\* FieldTypeMismatchError, at top level and within the embedded message: the
\* fields before it have been decoded, the decode goes no further, and no
\* Protobuf is returned.
C26_TypeMismatchAborts ==
    FirstMismatch > 0 =>
        /\ pb.status # "done"
        /\ pb.result = <<>>
        /\ Len(pb.pkt.fields_seen) < FirstMismatch
        /\ (pb.status = "dissect" /\ Len(pb.pkt.fields_seen) = FirstMismatch - 1) =>
                dissect_step(pb.pkt, pb.s, pb.desc).err = "FieldTypeMismatchError"
        /\ pb.status = "error" =>
                /\ pb.err = "FieldTypeMismatchError"
                /\ Len(pb.pkt.fields_seen) = FirstMismatch - 1

\* The decode of identity, of a field of id 99 and of a message whose
\* query_time_nsec is a varint has failed.
C26_Witness ==
    /\ pb.items = <<WellFormed.identity, WellFormed.unknown, Mismatched.nsec>>
    /\ pb.status = "error"
    /\ pb.err = "FieldTypeMismatchError"

\* The payload ends within the value of its last field: an identity that
\* declares 5 bytes where 2 remain, or a query_time_nsec of 2 bytes.
EndsWithinValue ==
    /\ pb.items # <<>>
    /\ pb.items[Len(pb.items)] \in {Truncated.identity, Truncated.nsec}
    /\ \A j \in 1..(Len(pb.items) - 1) : pb.items[j] \in Range(WellFormed)

\* C27: a length-delimited field whose declared length exceeds the bytes
\* that remain, or a fixed32 field with fewer than 4 bytes left, makes the
\* decode fail with an error: no Protobuf is returned with a value made of
\* the shorter remainder.
C27_TruncatedIsFatal ==
    EndsWithinValue => (pb.status # "done" /\ pb.result = <<>>)

\* C28: the descriptors of the class-level fields_desc lists are as they
\* were when the classes were defined, whatever has been decoded: no
\* attribute of a shared descriptor is written during a decode.
C28_DescriptorsReadOnly == pb.desc = InitialDescriptors

\* The tag and the length that a turn of do_dissect finds at the head of
\* what is left of the payload.
HeadTag == get_field_header(pb.s)
HeadLength == get_varint(HeadTag.s)

\* A turn of do_dissect: pb.s is not empty.
C29_Turn ==
    (pb.status = "dissect" /\ pb.s # <<>>) =>
        /\ pb'.status \in {"dissect", "error"}
        /\ pb'.status = "dissect" =>
            /\ Len(pb'.s) < Len(pb.s)
            /\ pb'.s = SubSeq(pb.s, Len(pb.s) - Len(pb'.s) + 1, Len(pb.s))
            /\ pb'.s = SubSeq(pb.payload, Len(pb.payload) - Len(pb'.s) + 1, Len(pb.payload))
            /\ Len(pb'.pkt.fields_seen) = Len(pb.pkt.fields_seen) + 1
            /\ (HeadTag.id = 14 /\ HeadTag.wtype = 2) =>
                /\ Len(pb'.s) = Len(Drop(HeadLength.s, HeadLength.v))
                /\ FieldValues(pb'.pkt, "message") =
                     { MsgVal(do_dissect(Protobuf("Message", pb.log_wire_type),
                                         Take(HeadLength.s, HeadLength.v),
                                         InitialDescriptors).pkt) }

\* C29: every turn of do_dissect reads one tag and its value and leaves a
\* strictly shorter suffix of the slice it was given, which is a suffix of
\* the payload, so the decode of a finite payload ends; an embedded message
\* is decoded from the bytes of its own length-delimited value only, and
\* the outer decode goes on right behind them.
C29_DecodeStaysInside == [][C29_Turn]_vars

\* A message of three fields has been decoded in front of a type field,
\* which is still to be decoded.
C29_Witness ==
    /\ pb.items = <<WellFormed.identity, WellFormed.message, WellFormed.type>>
    /\ pb.status = "dissect"
    /\ pb.s = WellFormed.type

----------------------------------------------------------------------------
(* pcap_config.                                                            *)

\* The network ids of the source and of the destination of the packet that
\* match was called with.
SrcNet == network(flow.networks, flow.args[1])
DstNet == network(flow.networks, flow.args[3])

\* The rules, by their place in the declaration, whose networks admit the
\* packet (None admitting every network) and whose action matches it.
MatchingRules ==
    { i \in 1..Len(flow.rules) :
        /\ flow.rules[i].src \in {NoName} \cup
                { n \in DOMAIN flow.networks.network_id : flow.networks.network_id[n] = SrcNet }
        /\ flow.rules[i].dst \in {NoName} \cup
                { n \in DOMAIN flow.networks.network_id : flow.networks.network_id[n] = DstNet }
        /\ MappingAction_match(flow.rules[i].action, flow.args) # NoResult }

FirstMatchingRule == CHOOSE i \in MatchingRules : \A j \in MatchingRules : i <= j

\* C30: FlowMapping.match returns None when the source or the destination
\* address is in no enumerated network or no rule matches; otherwise the
\* first rule in declaration order whose networks hold and whose action
\* matches decides: None if it drops, else its (client-address,
\* service-address, port-of-interest), later rules not being consulted.
C30_FirstMatchDecides ==
    flow.args # <<>> =>
        flow.result =
            IF SrcNet = None \/ DstNet = None \/ MatchingRules = {} THEN NoResult
            ELSE IF flow.rules[FirstMatchingRule].action.drop THEN NoResult
            ELSE MappingAction_match(flow.rules[FirstMatchingRule].action, flow.args)

\* A packet to port 53 met the drop rule in front of a rule that matches
\* every packet, and match returned None.
C30_Witness ==
    /\ Len(flow.rules) = 2
    /\ flow.rules[1].action.drop
    /\ flow.rules[2].action.cls = "LowerPort"
    /\ flow.args # <<>>
    /\ flow.args[4] = 53
    /\ SrcNet # None
    /\ DstNet # None
    /\ flow.result = NoResult


\* ---------------------------------------------------------------------
\* Claims C31..C40.
\* ---------------------------------------------------------------------
\* The value of the objects before call j of a history: the argument of
\* the last update_our_nets of each version, or the value at import.
OurAt(log, j) ==
    LET updates(four) == { i \in 1..(j - 1) :
                               /\ log[i].op = "update_our_nets"
                               /\ (log[i].our_nets[1].hi < 65536) = four }
        last(s)       == CHOOSE i \in s : \A h \in s : h <= i
    IN  [ OUR_4NETS |-> IF updates(TRUE) = {} THEN Net24(127)
                        ELSE log[last(updates(TRUE))].our_nets[1],
          OUR_6NETS |-> IF updates(FALSE) = {}
                        THEN [lo |-> 65536 + 252 * 256, hi |-> 65536 + 252 * 256 + 255]
                        ELSE log[last(updates(FALSE))].our_nets[1] ]

\* The lines of the enumeration one of whose CIDRs holds the address of
\* call j.
Holders(j) ==
    LET our == OurAt(flow.log, j)
        range(cidr) == IF "ref" \in DOMAIN cidr THEN our[cidr.ref] ELSE cidr
    IN  { i \in DOMAIN flow.networks.enumeration :
            \E k \in DOMAIN flow.networks.enumeration[i].cidrs :
                /\ range(flow.networks.enumeration[i].cidrs[k]).lo <= flow.log[j].address
                /\ flow.log[j].address <= range(flow.networks.enumeration[i].cidrs[k]).hi }

\* C31: network(address) returns the id of the first network, in the
\* order of declaration, one of whose CIDRs holds the address, and None
\* when no declared CIDR holds it.
C31_FirstNetworkInOrder ==
    \A j \in DOMAIN flow.log :
        flow.log[j].op = "network" =>
            IF Holders(j) = {} THEN flow.log[j].result = None
            ELSE \E i \in Holders(j) :
                     /\ \A h \in Holders(j) : i <= h
                     /\ flow.log[j].result = flow.networks.enumeration[i].id

\* An address that a narrow network and a later broad one both hold has got
\* the id of the narrow one, and an address no network holds has got None.
C31_Witness ==
    /\ \E j \in DOMAIN flow.log :
           /\ flow.log[j].op = "network"
           /\ \E i, h \in Holders(j) :
                  /\ i < h
                  /\ flow.networks.enumeration[i].id # flow.networks.enumeration[h].id
                  /\ flow.log[j].result = flow.networks.enumeration[i].id
    /\ \E j \in DOMAIN flow.log :
           /\ flow.log[j].op = "network"
           /\ Holders(j) = {}
           /\ flow.log[j].result = None

\* The lines of the enumeration that hold the object of the version of the
\* network n.
PlaceholderLines(n) ==
    { p \in DOMAIN flow.networks.enumeration :
        \E k \in DOMAIN flow.networks.enumeration[p].cidrs :
            /\ "ref" \in DOMAIN flow.networks.enumeration[p].cidrs[k]
            /\ flow.networks.enumeration[p].cidrs[k].ref
                   = (IF n.hi < 65536 THEN "OUR_4NETS" ELSE "OUR_6NETS") }

\* Call i found no network for an address, call u made the address one of
\* our own, and call j asks for it again before our own network of that
\* version changes once more.
UnmatchedThenOurs(i, u, j) ==
    /\ i < u /\ u < j
    /\ flow.log[i].op = "network" /\ flow.log[i].result = None
    /\ flow.log[u].op = "update_our_nets"
    /\ flow.log[u].our_nets[1].lo <= flow.log[i].address
    /\ flow.log[i].address <= flow.log[u].our_nets[1].hi
    /\ flow.log[j].op = "network" /\ flow.log[j].address = flow.log[i].address
    /\ \A h \in (u + 1)..(j - 1) :
           flow.log[h].op = "update_our_nets" =>
               (flow.log[h].our_nets[1].hi < 65536) # (flow.log[u].our_nets[1].hi < 65536)
    /\ PlaceholderLines(flow.log[u].our_nets[1]) # {}

LookupAfterUpdate ==
    \A i, u, j \in DOMAIN flow.log :
        UnmatchedThenOurs(i, u, j) =>
            \E p \in PlaceholderLines(flow.log[u].our_nets[1]) :
                flow.log[j].result = flow.networks.enumeration[p].id

\* C32: the placeholder is read when an address is looked up: an address
\* of N that had no network maps, after update_our_nets(N), to the network
\* that holds the placeholder, the enumeration being the one built before;
\* an IPv4 N changes OUR_4NETS only and an IPv6 N changes OUR_6NETS only.
C32_PlaceholderReadAtLookup ==
    [][ /\ flow'.networks = flow.networks
        /\ LookupAfterUpdate'
        /\ flow'.log[Len(flow'.log)].op = "update_our_nets" =>
               LET n == flow'.log[Len(flow'.log)].our_nets[1]
               IN  IF n.hi < 65536
                   THEN flow'.our = [OUR_4NETS |-> n, OUR_6NETS |-> flow.our.OUR_6NETS]
                   ELSE flow'.our = [OUR_4NETS |-> flow.our.OUR_4NETS, OUR_6NETS |-> n] ]_vars

\* An IPv4 address without a network has been given the id of site_net, the
\* network of the placeholder, by the enumeration built before the update,
\* and OUR_6NETS is as it was at import.
C32_Witness ==
    /\ \E i, u, j \in DOMAIN flow.log :
           /\ UnmatchedThenOurs(i, u, j)
           /\ flow.log[i].address < 65536
           /\ flow.log[j].result = flow.networks.network_id["site_net"]
           /\ flow.log[j].result # None
    /\ flow.our.OUR_6NETS = [lo |-> 65536 + 252 * 256, hi |-> 65536 + 252 * 256 + 255]
    /\ flow.our.OUR_4NETS # Net24(127)

\* The side of a call whose port makes it the service: the only side
\* whose port is in the set, and the side the precedence names when both
\* are.
ServiceSide ==
    LET src == flow.args[2] \in flow.action.set_of_ports
        dst == flow.args[4] \in flow.action.set_of_ports
    IN  IF src /\ dst THEN flow.precedence
        ELSE IF src THEN SOURCE
        ELSE IF dst THEN DESTINATION
        ELSE "neither"

\* C33: PortMatch.match returns None when neither port is in the set, and
\* otherwise (client-address, service-address, port) for the service side,
\* which the precedence names when both ports are in the set; with drop
\* it returns (None, None, None) instead of the addresses and the port.
C33_PortMatchResult ==
    flow.args # <<>> =>
        flow.result =
            CASE ServiceSide = "neither"   -> <<>>
              [] flow.action.drop          -> <<None, None, None>>
              [] ServiceSide = SOURCE      -> <<flow.args[3], flow.args[1], flow.args[2]>>
              [] ServiceSide = DESTINATION -> <<flow.args[1], flow.args[3], flow.args[4]>>

\* Both ports are in the set and the destination, named by the precedence,
\* has been returned as the service.
C33_Witness ==
    /\ flow.args # <<>>
    /\ flow.args[2] \in flow.action.set_of_ports
    /\ flow.args[4] \in flow.action.set_of_ports
    /\ flow.args[2] # flow.args[4]
    /\ flow.precedence = DESTINATION
    /\ flow.result = <<flow.args[1], flow.args[3], flow.args[4]>>

\* The ids of the records emitted so far, in the order of emission.
Emitted ==
    [i \in 1..(Len(agent.checked) + Len(agent.channel)) |->
        IF i <= Len(agent.checked) THEN agent.checked[i].id
        ELSE agent.channel[i - Len(agent.checked)]]

\* C34: the ids of the emitted records are 1, 2, 3, ... in the order of
\* emission, whatever was filtered, discarded or exploded into several
\* records, and every check of the DNS agent on a peer it knows finds the
\* id it expects.
C34_IdsWithoutGap ==
    /\ \A i \in DOMAIN Emitted : Emitted[i] = i
    /\ \A i \in DOMAIN agent.checked :
           agent.checked[i].known => agent.checked[i].expected

\* A response was discarded for an invalid address, a later one gave two
\* records, and the DNS agent has checked all of three records.
C34_Witness ==
    /\ \E i, j \in DOMAIN agent.consumed :
           /\ i < j
           /\ agent.consumed[i].pass
           /\ agent.consumed[i].packet.rcode = "NOERROR"
           /\ agent.consumed[i].yielded = <<>>
           /\ Len(agent.consumed[j].yielded) = 2
    /\ Len(agent.checked) = 3
    /\ agent.channel = <<>>
    /\ agent.checked[3].known /\ agent.checked[3].expected

\* C35: Consumer.finished is the last callback of a connection: no
\* Consumer.consume of the connection comes after it, in the asyncio
\* server as well.
C35_FinishedIsLast ==
    \A i, j \in DOMAIN calls :
        (i < j /\ IsFinished(calls[i])) => ~IsConsume(calls[j])

\* How many times Consumer.finished has been called.
FinishedCalls == Cardinality({ i \in DOMAIN calls : IsFinished(calls[i]) })

\* C36: finished is called once at most, and once exactly when the
\* connection has ended by the end of the stream, by STOP or by a false
\* return of accepted or consume; the processor's buffer is then empty and
\* receiving_data is False.
C36_FinishedOnce ==
    /\ FinishedCalls <= 1
    /\ pc = "closed" =>
           /\ FinishedCalls = 1
           /\ processor.buffer = <<>>
           /\ ~processor.receiving_data

\* The asyncio server has closed a connection after consume returned False,
\* and finished got the bytes that were left in the buffer.
C36_Witness ==
    /\ pc = "closed"
    /\ loop
    /\ \E i, j \in DOMAIN calls :
           /\ i < j
           /\ IsConsume(calls[i]) /\ ~calls[i].ret
           /\ IsFinished(calls[j]) /\ calls[j].arg # <<>>
    /\ FinishedCalls = 1
    /\ processor.buffer = <<>>

\* C37: DataProcessor.tasks holds the consume tasks that are pending and
\* no others: a task is out of the set once its consume call has returned,
\* whatever it returned.
C37_TasksOnlyPending ==
    processor.tasks \subseteq { readyq[i].id : i \in DOMAIN readyq }

\* C38: when frame_ready has just returned False on a running processor,
\* read_size() is 1 at least: no read of zero bytes is asked for while a
\* frame is incomplete.
C38_ReadSizePositive ==
    (ready = "False" /\ processor.running) => read_size(processor) >= 1

\* frame_ready has returned False with part of a payload in the buffer, for
\* a Data frame and for a Control frame, and read_size asks for the rest.
C38_Witness ==
    /\ ready = "False"
    /\ processor.running
    /\ processor.buffer # <<>>
    /\ processor.data_length # None
    /\ \/ processor.data_length > Len(processor.buffer)
       \/ /\ processor.data_length = 0
          /\ processor.control_length # None
          /\ processor.control_length > Len(processor.buffer)
    /\ read_size(processor) \in 1..3

\* C39: a Control frame whose control length is below 4 is rejected with
\* an error: process_frame raises, and the payload is not taken for a
\* READY, a START or a STOP, so no ACCEPT is sent, no callback is made and
\* the connection is not ended as by STOP.
C39_ShortControlRejected ==
    [][ ( /\ pc = "process"
          /\ processor.running
          /\ processor.is_control_frame
          /\ Len(processor.frame) < 4 ) =>
            /\ pc' = "error"
            /\ err' # ""
            /\ calls' = calls
            /\ sent' = sent ]_vars

\* C40: when the writes have kept failing for more than
\* WRITE_FAILURE_WINDOW seconds since the first failure and
\* EXIT_ON_PERSISTENT_FAILURE is true, the writer has ended the process;
\* and of failed writes in a row only the first is logged as critical.
C40_PersistentFailureExits ==
    /\ ( /\ agent.EXIT_ON_PERSISTENT_FAILURE
         /\ \E i, j \in DOMAIN agent.writes :
                /\ i < j
                /\ \A k \in i..j : ~agent.writes[k].sent
                /\ agent.writes[j].time - agent.writes[i].time > WRITE_FAILURE_WINDOW )
           => agent.exited
    /\ \A k \in DOMAIN agent.writes :
           (k > 1 /\ ~agent.writes[k].sent /\ ~agent.writes[k - 1].sent)
               => ~agent.writes[k].critical

====
